---- MODULE Spec2Model ----
(***************************************************************************)
(* Model of the localization validator (validator.py).                     *)
(*                                                                         *)
(* A text is a sequence of one-character strings.  The regular expressions *)
(* of check_entries are modelled by scanners that work on the characters   *)
(* the way re.findall / re.sub do: leftmost match first, then on from the  *)
(* end of the match.  The class attributes of Validator are the variables  *)
(* of the model; the operators that model its static methods take and      *)
(* return the record V of those attributes.                                *)
(*                                                                         *)
(* Tag names, attribute names and values, file names and the parts of a    *)
(* location are texts as well, so that None, which is no text, differs     *)
(* from every value an attribute can have.                                 *)
(*                                                                         *)
(* An exception that no handler of the script catches ends the run: the    *)
(* operators pass it on in the field raised of V, and a statement that     *)
(* would run after it changes nothing.                                     *)
(*                                                                         *)
(* The preview of one text, add_formatted_text_to_html, is modelled twice: *)
(* as an operator, for the runs with --preview_formatting, and by a        *)
(* specification of its own, one step for each turn of its loop.           *)
(***************************************************************************)
EXTENDS Integers, Sequences, FiniteSets, TLC

VARIABLES
    pc,                 \* position in __main__ / check_xml_files
    parsing,            \* Validator.custom_xml_parser._parsing, between files
    used_ids,           \* Validator.used_ids
    errors,             \* Validator.errors
    display_limit,      \* Validator.display_limit
    show_lang,          \* Validator.show_lang
    found_missing_lang, \* Validator.found_missing_lang
    total_strings,      \* Validator.total_strings
    output,             \* the diagnostics printed so far, in order
    file_no,            \* number of files of xml_files taken so far
    children_left,      \* child nodes the current file's root still holds
    children_seen,      \* child nodes of root elements taken so far in the run
    entry,              \* the node handled by the last step (NoNode before)
    diags,              \* the diagnostics printed by the last step
    history,            \* <<file_no, Id>> of every Entry element processed
    exit_status,        \* the status the process exits with (None while running)
    preview_formatting, \* Validator.preview_formatting
    raw_text,           \* add_formatted_text_to_html: the argument text
    rewritten,          \* text, after regex_replace_multiple (line 454)
    text_fragments,     \* re.split(GROUP_REGEX, text)
    matchedActions,     \* re.findall(GROUP_REGEX, text)
    loop_i,             \* i, the index of the loop over text_fragments[1:]
    bolded,             \* the style state of the loop
    italic,
    color,
    condensed,
    new_line,
    body,               \* the nodes added to Validator.main_doc.body, in order
    raised,             \* the exception that ended the call or the run, if any
    styles              \* the style state at the start and after every turn

\* The variables of the loop of add_formatted_text_to_html.
lvars == <<raw_text, rewritten, text_fragments, matchedActions, loop_i, bolded, italic, color,
           condensed, new_line, styles>>

\* The variables of a call of add_formatted_text_to_html.
pvars == <<lvars, body, raised>>

\* The class attributes and the variables of a run.
cvars == <<parsing, used_ids, errors, display_limit, show_lang, found_missing_lang,
           total_strings, output, file_no, children_left, children_seen, entry,
           diags, history, exit_status, preview_formatting>>

vars == <<pc, cvars, pvars>>

\* Python's None: the missing Id, the missing xml:lang, the unset show_lang.
\* A text is a sequence of characters; None is a sequence of one string that
\* is no character, so it is equal to no text, the text "None" included.
None == <<"None">>

\* No exception has left the code.
NoException == "no exception"

----------------------------------------------------------------------------
(* Texts and the regular expressions of check_entries                      *)

\* The characters between the tildes of FORMAT_REGEX, r"~[s,b,r,n,y,p,g,o,h,c]~":
\* the commas of the character class are members of it.
FormatChars == {"s", ",", "b", "r", "n", "y", "p", "g", "o", "h", "c"}

Digits == {"0", "1", "2", "3", "4", "5", "6", "7", "8", "9"}

\* \s of a str pattern: the characters for which str.isspace() holds.  Those up
\* to U+00FF are written as they are (tab, line feed, vertical tab, form feed,
\* carriage return, U+001C to U+001F, space, U+0085, U+00A0); a character that
\* a string of this module cannot hold is written as its code point.
Whitespace ==
    {"\t", "\n", "", "\f", "\r", "", "", "", "", " ", "", " ",
     "U+1680", "U+2000", "U+2001", "U+2002", "U+2003", "U+2004", "U+2005", "U+2006", "U+2007",
     "U+2008", "U+2009", "U+200A", "U+2028", "U+2029", "U+202F", "U+205F", "U+3000"}

\* The characters of WRONG_PUNCTUATION_REGEX's class, r"[.,?,!]".
PunctuationChars == {".", ",", "?", "!"}

\* FORMAT_REGEX matches at position i of text t.
FormatAt(t, i) ==
    /\ i + 2 <= Len(t)
    /\ t[i] = "~"
    /\ t[i + 1] \in FormatChars
    /\ t[i + 2] = "~"

\* re.findall(FORMAT_REGEX, t): the matches from position i on, left to right,
\* non-overlapping.
RECURSIVE FindFormatsFrom(_, _)
FindFormatsFrom(t, i) ==
    IF i > Len(t) THEN <<>>
    ELSE IF FormatAt(t, i)
         THEN <<SubSeq(t, i, i + 2)>> \o FindFormatsFrom(t, i + 3)
         ELSE FindFormatsFrom(t, i + 1)

FindFormats(t) == FindFormatsFrom(t, 1)

\* re.sub(FORMAT_REGEX, "", t): the text with every match removed.
RECURSIVE StripFormatsFrom(_, _)
StripFormatsFrom(t, i) ==
    IF i > Len(t) THEN <<>>
    ELSE IF FormatAt(t, i)
         THEN StripFormatsFrom(t, i + 3)
         ELSE <<t[i]>> \o StripFormatsFrom(t, i + 1)

StripFormats(t) == StripFormatsFrom(t, 1)

\* The end of the run of digits that starts at position i (i - 1 when none).
RECURSIVE DigitsEnd(_, _)
DigitsEnd(t, i) ==
    IF i <= Len(t) /\ t[i] \in Digits THEN DigitsEnd(t, i + 1) ELSE i - 1

\* VARIABLE_REGEX, r"{[0-9]+}", matches at position i: the position of its
\* closing brace, 0 when it does not match.
VariableEndAt(t, i) ==
    IF i <= Len(t) /\ t[i] = "{"
    THEN LET e == DigitsEnd(t, i + 1)
         IN  IF e >= i + 1 /\ e + 1 <= Len(t) /\ t[e + 1] = "}" THEN e + 1 ELSE 0
    ELSE 0

\* re.findall(VARIABLE_REGEX, t).
RECURSIVE FindVariablesFrom(_, _)
FindVariablesFrom(t, i) ==
    IF i > Len(t) THEN <<>>
    ELSE LET e == VariableEndAt(t, i)
         IN  IF e > 0
             THEN <<SubSeq(t, i, e)>> \o FindVariablesFrom(t, e + 1)
             ELSE FindVariablesFrom(t, i + 1)

FindVariables(t) == FindVariablesFrom(t, 1)

\* text_without_formatting.find("~") != -1
HasTilde(t) == \E i \in 1..Len(t) : t[i] = "~"

\* re.findall(r"\s\s+", t) is not empty.
HasSpaceRun(t) ==
    \E i \in 1..(Len(t) - 1) : t[i] \in Whitespace /\ t[i + 1] \in Whitespace

\* re.findall(WRONG_PUNCTUATION_REGEX, t) is not empty.
HasWrongPunctuation(t) ==
    \E i \in 1..(Len(t) - 1) : t[i] \in Whitespace /\ t[i + 1] \in PunctuationChars

\* repr of a str (validator.py:394, 539), for the characters of the model's
\* texts, which are the characters from U+0001 to U+00FF and the characters of
\* Whitespace: <<character, what is written for it>>
\* for the characters that are not written as they are.
ReprEscapes ==
    {
     <<"\\", <<"\\", "\\">>>>,
     <<"\t", <<"\\", "t">>>>,
     <<"\n", <<"\\", "n">>>>,
     <<"\r", <<"\\", "r">>>>,
     <<"", <<"\\", "x", "0", "1">>>>,
     <<"", <<"\\", "x", "0", "2">>>>,
     <<"", <<"\\", "x", "0", "3">>>>,
     <<"", <<"\\", "x", "0", "4">>>>,
     <<"", <<"\\", "x", "0", "5">>>>,
     <<"", <<"\\", "x", "0", "6">>>>,
     <<"", <<"\\", "x", "0", "7">>>>,
     <<"", <<"\\", "x", "0", "8">>>>,
     <<"", <<"\\", "x", "0", "b">>>>,
     <<"", <<"\\", "x", "0", "e">>>>,
     <<"", <<"\\", "x", "0", "f">>>>,
     <<"", <<"\\", "x", "1", "0">>>>,
     <<"", <<"\\", "x", "1", "1">>>>,
     <<"", <<"\\", "x", "1", "2">>>>,
     <<"", <<"\\", "x", "1", "3">>>>,
     <<"", <<"\\", "x", "1", "4">>>>,
     <<"", <<"\\", "x", "1", "5">>>>,
     <<"", <<"\\", "x", "1", "6">>>>,
     <<"", <<"\\", "x", "1", "7">>>>,
     <<"", <<"\\", "x", "1", "8">>>>,
     <<"", <<"\\", "x", "1", "9">>>>,
     <<"", <<"\\", "x", "1", "a">>>>,
     <<"", <<"\\", "x", "1", "b">>>>,
     <<"", <<"\\", "x", "1", "c">>>>,
     <<"", <<"\\", "x", "1", "d">>>>,
     <<"", <<"\\", "x", "1", "e">>>>,
     <<"", <<"\\", "x", "1", "f">>>>,
     <<"\f", <<"\\", "x", "0", "c">>>>,
     <<"", <<"\\", "x", "7", "f">>>>,
     <<"", <<"\\", "x", "8", "0">>>>,
     <<"", <<"\\", "x", "8", "1">>>>,
     <<"", <<"\\", "x", "8", "2">>>>,
     <<"", <<"\\", "x", "8", "3">>>>,
     <<"", <<"\\", "x", "8", "4">>>>,
     <<"", <<"\\", "x", "8", "5">>>>,
     <<"", <<"\\", "x", "8", "6">>>>,
     <<"", <<"\\", "x", "8", "7">>>>,
     <<"", <<"\\", "x", "8", "8">>>>,
     <<"", <<"\\", "x", "8", "9">>>>,
     <<"", <<"\\", "x", "8", "a">>>>,
     <<"", <<"\\", "x", "8", "b">>>>,
     <<"", <<"\\", "x", "8", "c">>>>,
     <<"", <<"\\", "x", "8", "d">>>>,
     <<"", <<"\\", "x", "8", "e">>>>,
     <<"", <<"\\", "x", "8", "f">>>>,
     <<"", <<"\\", "x", "9", "0">>>>,
     <<"", <<"\\", "x", "9", "1">>>>,
     <<"", <<"\\", "x", "9", "2">>>>,
     <<"", <<"\\", "x", "9", "3">>>>,
     <<"", <<"\\", "x", "9", "4">>>>,
     <<"", <<"\\", "x", "9", "5">>>>,
     <<"", <<"\\", "x", "9", "6">>>>,
     <<"", <<"\\", "x", "9", "7">>>>,
     <<"", <<"\\", "x", "9", "8">>>>,
     <<"", <<"\\", "x", "9", "9">>>>,
     <<"", <<"\\", "x", "9", "a">>>>,
     <<"", <<"\\", "x", "9", "b">>>>,
     <<"", <<"\\", "x", "9", "c">>>>,
     <<"", <<"\\", "x", "9", "d">>>>,
     <<"", <<"\\", "x", "9", "e">>>>,
     <<"", <<"\\", "x", "9", "f">>>>,
     <<" ", <<"\\", "x", "a", "0">>>>,
     <<"­", <<"\\", "x", "a", "d">>>>,
     <<"U+1680", <<"\\", "u", "1", "6", "8", "0">>>>,
     <<"U+2000", <<"\\", "u", "2", "0", "0", "0">>>>,
     <<"U+2001", <<"\\", "u", "2", "0", "0", "1">>>>,
     <<"U+2002", <<"\\", "u", "2", "0", "0", "2">>>>,
     <<"U+2003", <<"\\", "u", "2", "0", "0", "3">>>>,
     <<"U+2004", <<"\\", "u", "2", "0", "0", "4">>>>,
     <<"U+2005", <<"\\", "u", "2", "0", "0", "5">>>>,
     <<"U+2006", <<"\\", "u", "2", "0", "0", "6">>>>,
     <<"U+2007", <<"\\", "u", "2", "0", "0", "7">>>>,
     <<"U+2008", <<"\\", "u", "2", "0", "0", "8">>>>,
     <<"U+2009", <<"\\", "u", "2", "0", "0", "9">>>>,
     <<"U+200A", <<"\\", "u", "2", "0", "0", "a">>>>,
     <<"U+2028", <<"\\", "u", "2", "0", "2", "8">>>>,
     <<"U+2029", <<"\\", "u", "2", "0", "2", "9">>>>,
     <<"U+202F", <<"\\", "u", "2", "0", "2", "f">>>>,
     <<"U+205F", <<"\\", "u", "2", "0", "5", "f">>>>,
     <<"U+3000", <<"\\", "u", "3", "0", "0", "0">>>>
    }

ReprChar(c, quote) ==
    IF c = quote THEN <<"\\", c>>
    ELSE IF \E e \in ReprEscapes : e[1] = c
    THEN (CHOOSE e \in ReprEscapes : e[1] = c)[2]
    ELSE <<c>>

RECURSIVE ReprChars(_, _)
ReprChars(t, quote) ==
    IF t = <<>> THEN <<>>
    ELSE ReprChar(Head(t), quote) \o ReprChars(Tail(t), quote)

\* repr(t): between double quotes when the text holds a single quote and no
\* double quote, between single quotes otherwise; repr(None) is None.
repr(t) ==
    IF t = None THEN <<"N", "o", "n", "e">>
    ELSE LET quote == IF (\E i \in 1..Len(t) : t[i] = "'")
                          /\ ~(\E i \in 1..Len(t) : t[i] = "\"")
                       THEN "\"" ELSE "'"
         IN  <<quote>> \o ReprChars(t, quote) \o <<quote>>

\* The elements of a list, as a set (Python's set(list)).
ToSet(s) == {s[i] : i \in 1..Len(s)}

\* Mutant of NotIn: nothing is filtered out.
NotInKeepsAll(s, other) == s

\* [x for x in s if x not in other]
RECURSIVE NotIn(_, _)
NotIn(s, other) ==
    IF s = <<>> THEN <<>>
    ELSE (IF Head(s) \in ToSet(other) THEN <<>> ELSE <<Head(s)>>)
         \o NotIn(Tail(s), other)

----------------------------------------------------------------------------
(* The XML tree handed over by xml.dom.minidom                             *)

\* An element's parse_position when there is none to give (custom_file_cursor
\* is None).
NoCursor == <<>>

\* should_end_with_format = None
NoFormat == <<>>

\* The names of the tags and attributes the script knows, and two languages.
TagEntry == <<"E", "n", "t", "r", "y">>
TagString == <<"S", "t", "r", "i", "n", "g">>
AttrId == <<"I", "d">>
lang_attrib == <<"x", "m", "l", ":", "l", "a", "n", "g">>
EN_US == <<"e", "n", "-", "U", "S">>
DE_DE == <<"d", "e", "-", "D", "E">>

\* A Text node (a CDATA section is one as well): isinstance(child, Text).
TextNode == [nodeType |-> "text"]

\* A node that is neither a Text nor an Element, a processing instruction:
\* it has no tagName.
ProcessingInstruction == [nodeType |-> "processing_instruction"]

\* No node: the value of entry while no child node has been handled.
NoNode == [nodeType |-> "none"]

\* An element with its attributes, <<name, value>> in document order, its
\* child nodes, its text content (get_text_from_node) and the position
\* setup_xml_parser attached to it.
Element(tagName, attributes, childNodes, text, parse_position) ==
    [nodeType |-> "element", tagName |-> tagName, attributes |-> attributes,
     childNodes |-> childNodes, text |-> text, parse_position |-> parse_position]

\* dict(node.attributes.items()).get(key)
RECURSIVE AttrGet(_, _)
AttrGet(attributes, key) ==
    IF attributes = <<>> THEN None
    ELSE IF Head(attributes)[1] = key THEN Head(attributes)[2]
         ELSE AttrGet(Tail(attributes), key)

get_text_from_node(node) == node.text

----------------------------------------------------------------------------
(* Validator: the diagnostics                                              *)

\* The class attributes the static methods read and write, the nodes of
\* main_doc.body, the exception that is on its way out of the code, and
\* whether dominate refuses a None as the content of a tag.
V == [used_ids |-> used_ids, errors |-> errors, display_limit |-> display_limit,
      show_lang |-> show_lang, found_missing_lang |-> found_missing_lang,
      total_strings |-> total_strings, output |-> output,
      preview_formatting |-> preview_formatting, body |-> body, raised |-> raised,
      refuses_none |-> TRUE]

\* An exception is on its way out: no statement behind it is executed.
Raising(v) == v.raised # NoException

Raise(v, exception) == [v EXCEPT !.raised = exception]

\* A message: its fixed text and the values formatted into it (the set or
\* the list that is joined, the repr of what was found and of what was
\* expected, the repr of the Id).
Msg(text, names, variables, found, expected, id) ==
    [text |-> text, names |-> names, variables |-> variables,
     found |-> found, expected |-> expected, id |-> id]

PlainMsg(text) == Msg(text, {}, <<>>, NoFormat, NoFormat, None)

MSG_NO_ID          == "Found element without id!"
MSG_DUPLICATE_ID   == "Found element duplicate with id"
MSG_UNKNOWN_TAG    == "Unknown tag"
MSG_UNKNOWN_ATTR   == "Unknown attribute"
MSG_INVALID_FORMAT == "Found invalid text formatting: "
MSG_MISSING_FORMAT == "Missing text formatting: "
MSG_WRONG_END      == "String ends with a wrong format"
MSG_MISSING_VARS   == "Missing variables: "
MSG_TOO_MANY_VARS  == "Found too many variables: "
MSG_TILDE          == "Found invalid text formatting (~)"
MSG_SPACES         == "Found too many spaces between words"
MSG_PUNCTUATION    == "Found invalid punctuation mark placement"
MSG_INVALID_FILE   == "Invalid file"
MSG_MISSING_LANG   == "Missing translation for"

\* get_location_string raises TypeError: a None among location[1:] cannot be
\* joined (line 351), and to a None at location[0] nothing can be added
\* (lines 349 and 351).
LocationRaises(location, custom_file_cursor) ==
    /\ location # <<>>
    /\ \/ \E i \in 2..Len(location) : location[i] = None
       \/ location[1] = None /\ (custom_file_cursor # NoCursor \/ Len(location) > 1)

\* A printed line: "severity location[cursor]:\nmsg".
Line(severity, msg, location, custom_file_cursor) ==
    [severity |-> severity, msg |-> msg, location |-> location,
     cursor |-> custom_file_cursor]

\* print_error: counts the error (line 366), then prints it.  The location
\* string is made after the error is counted: when that raises, the error is
\* counted and nothing is printed.  The line is written to a standard output
\* that takes it.
print_error(v, error, location, custom_file_cursor) ==
    IF Raising(v) THEN v
    ELSE IF LocationRaises(location, custom_file_cursor)
    THEN Raise([v EXCEPT !.errors = @ + 1], "TypeError")
    ELSE [v EXCEPT !.errors = @ + 1,
                   !.output = Append(@, Line("[!]", error, location,
                                             custom_file_cursor))]

\* print_warning: prints the warning, counts nothing.
print_warning(v, warning, location, custom_file_cursor) ==
    IF Raising(v) THEN v
    ELSE IF LocationRaises(location, custom_file_cursor) THEN Raise(v, "TypeError")
    ELSE [v EXCEPT !.output = Append(@, Line("[*]", warning, location,
                                             custom_file_cursor))]

\* entry_pretty_print: f"{entry.tagName}<Id:{repr(Id)}>"
entry_pretty_print(e) ==
    e.tagName \o <<"<", "I", "d", ":">> \o repr(AttrGet(e.attributes, AttrId))
        \o <<">">>

\* known_tags[:display_limit]: the first display_limit elements of the list,
\* all but the last -display_limit of them for a negative limit.
Slice(list, limit) ==
    IF limit >= 0
    THEN SubSeq(list, 1, IF limit < Len(list) THEN limit ELSE Len(list))
    ELSE SubSeq(list, 1, Len(list) + limit)

\* check_unknown_tag: whether the tag is known; an unknown tag is an error,
\* printed with repr(tagName) and the first display_limit known tags.
\* A node without tagName raises AttributeError (line 409).
check_unknown_tag(v, e, known_tags, location) ==
    IF Raising(v) THEN [v |-> v, known |-> FALSE]
    ELSE IF e.nodeType # "element"
    THEN [v |-> Raise(v, "AttributeError"), known |-> FALSE]
    ELSE IF e.tagName \in ToSet(known_tags)
    THEN [v |-> v, known |-> TRUE]
    ELSE [v |-> print_error(v, Msg(MSG_UNKNOWN_TAG, {},
                                   Slice(known_tags, v.display_limit),
                                   repr(e.tagName), NoFormat, None),
                            location, e.parse_position),
          known |-> FALSE]

----------------------------------------------------------------------------
(* The HTML preview: add_formatted_text_to_html                            *)

\* GTA_HUD_COLORS, lines 23-258: every entry of the dictionary,
\* <<name, value>>.
GTA_HUD_COLORS ==
    {
     <<<<"H", "U", "D", "_", "C", "O", "L", "O", "U", "R", "_", "P", "U", "R", "E", "_", "W", "H", "I", "T", "E">>,
       "rgba(255, 255, 255, 255)">>,
     <<<<"H", "U", "D", "_", "C", "O", "L", "O", "U", "R", "_", "W", "H", "I", "T", "E">>,
       "rgba(240, 240, 240, 255)">>,
     <<<<"H", "U", "D", "_", "C", "O", "L", "O", "U", "R", "_", "B", "L", "A", "C", "K">>,
       "rgba(0, 0, 0, 255)">>,
     <<<<"H", "U", "D", "_", "C", "O", "L", "O", "U", "R", "_", "G", "R", "E", "Y">>,
       "rgba(155, 155, 155, 255)">>,
     <<<<"H", "U", "D", "_", "C", "O", "L", "O", "U", "R", "_", "G", "R", "E", "Y", "L", "I", "G", "H", "T">>,
       "rgba(205, 205, 205, 255)">>,
     <<<<"H", "U", "D", "_", "C", "O", "L", "O", "U", "R", "_", "G", "R", "E", "Y", "D", "A", "R", "K">>,
       "rgba(77, 77, 77, 255)">>,
     <<<<"H", "U", "D", "_", "C", "O", "L", "O", "U", "R", "_", "R", "E", "D">>,
       "rgba(224, 50, 50, 255)">>,
     <<<<"H", "U", "D", "_", "C", "O", "L", "O", "U", "R", "_", "R", "E", "D", "L", "I", "G", "H", "T">>,
       "rgba(240, 153, 153, 255)">>,
     <<<<"H", "U", "D", "_", "C", "O", "L", "O", "U", "R", "_", "R", "E", "D", "D", "A", "R", "K">>,
       "rgba(112, 25, 25, 255)">>,
     <<<<"H", "U", "D", "_", "C", "O", "L", "O", "U", "R", "_", "B", "L", "U", "E">>,
       "rgba(93, 182, 229, 255)">>,
     <<<<"H", "U", "D", "_", "C", "O", "L", "O", "U", "R", "_", "B", "L", "U", "E", "L", "I", "G", "H", "T">>,
       "rgba(174, 219, 242, 255)">>,
     <<<<"H", "U", "D", "_", "C", "O", "L", "O", "U", "R", "_", "B", "L", "U", "E", "D", "A", "R", "K">>,
       "rgba(47, 92, 115, 255)">>,
     <<<<"H", "U", "D", "_", "C", "O", "L", "O", "U", "R", "_", "Y", "E", "L", "L", "O", "W">>,
       "rgba(240, 200, 80, 255)">>,
     <<<<"H", "U", "D", "_", "C", "O", "L", "O", "U", "R", "_", "Y", "E", "L", "L", "O", "W", "L", "I", "G", "H", "T">>,
       "rgba(254, 235, 169, 255)">>,
     <<<<"H", "U", "D", "_", "C", "O", "L", "O", "U", "R", "_", "Y", "E", "L", "L", "O", "W", "D", "A", "R", "K">>,
       "rgba(126, 107, 41, 255)">>,
     <<<<"H", "U", "D", "_", "C", "O", "L", "O", "U", "R", "_", "O", "R", "A", "N", "G", "E">>,
       "rgba(255, 133, 85, 255)">>,
     <<<<"H", "U", "D", "_", "C", "O", "L", "O", "U", "R", "_", "O", "R", "A", "N", "G", "E", "L", "I", "G", "H", "T">>,
       "rgba(255, 194, 170, 255)">>,
     <<<<"H", "U", "D", "_", "C", "O", "L", "O", "U", "R", "_", "O", "R", "A", "N", "G", "E", "D", "A", "R", "K">>,
       "rgba(127, 66, 42, 255)">>,
     <<<<"H", "U", "D", "_", "C", "O", "L", "O", "U", "R", "_", "G", "R", "E", "E", "N">>,
       "rgba(114, 204, 114, 255)">>,
     <<<<"H", "U", "D", "_", "C", "O", "L", "O", "U", "R", "_", "G", "R", "E", "E", "N", "L", "I", "G", "H", "T">>,
       "rgba(185, 230, 185, 255)">>,
     <<<<"H", "U", "D", "_", "C", "O", "L", "O", "U", "R", "_", "G", "R", "E", "E", "N", "D", "A", "R", "K">>,
       "rgba(57, 102, 57, 255)">>,
     <<<<"H", "U", "D", "_", "C", "O", "L", "O", "U", "R", "_", "P", "U", "R", "P", "L", "E">>,
       "rgba(132, 102, 226, 255)">>,
     <<<<"H", "U", "D", "_", "C", "O", "L", "O", "U", "R", "_", "P", "U", "R", "P", "L", "E", "L", "I", "G", "H", "T">>,
       "rgba(192, 179, 239, 255)">>,
     <<<<"H", "U", "D", "_", "C", "O", "L", "O", "U", "R", "_", "P", "U", "R", "P", "L", "E", "D", "A", "R", "K">>,
       "rgba(67, 57, 111, 255)">>,
     <<<<"H", "U", "D", "_", "C", "O", "L", "O", "U", "R", "_", "P", "I", "N", "K">>,
       "rgba(203, 54, 148, 255)">>,
     <<<<"H", "U", "D", "_", "C", "O", "L", "O", "U", "R", "_", "R", "A", "D", "A", "R", "_", "H", "E", "A", "L", "T", "H">>,
       "rgba(53, 154, 71, 255)">>,
     <<<<"H", "U", "D", "_", "C", "O", "L", "O", "U", "R", "_", "R", "A", "D", "A", "R", "_", "A", "R", "M", "O", "U", "R">>,
       "rgba(93, 182, 229, 255)">>,
     <<<<"H", "U", "D", "_", "C", "O", "L", "O", "U", "R", "_", "R", "A", "D", "A", "R", "_", "D", "A", "M", "A", "G", "E">>,
       "rgba(235, 36, 39, 255)">>,
     <<<<"H", "U", "D", "_", "C", "O", "L", "O", "U", "R", "_", "N", "E", "T", "_", "P", "L", "A", "Y", "E", "R", "1">>,
       "rgba(194, 80, 80, 255)">>,
     <<<<"H", "U", "D", "_", "C", "O", "L", "O", "U", "R", "_", "N", "E", "T", "_", "P", "L", "A", "Y", "E", "R", "2">>,
       "rgba(156, 110, 175, 255)">>,
     <<<<"H", "U", "D", "_", "C", "O", "L", "O", "U", "R", "_", "N", "E", "T", "_", "P", "L", "A", "Y", "E", "R", "3">>,
       "rgba(255, 123, 196, 255)">>,
     <<<<"H", "U", "D", "_", "C", "O", "L", "O", "U", "R", "_", "N", "E", "T", "_", "P", "L", "A", "Y", "E", "R", "4">>,
       "rgba(247, 159, 123, 255)">>,
     <<<<"H", "U", "D", "_", "C", "O", "L", "O", "U", "R", "_", "N", "E", "T", "_", "P", "L", "A", "Y", "E", "R", "5">>,
       "rgba(178, 144, 132, 255)">>,
     <<<<"H", "U", "D", "_", "C", "O", "L", "O", "U", "R", "_", "N", "E", "T", "_", "P", "L", "A", "Y", "E", "R", "6">>,
       "rgba(141, 206, 167, 255)">>,
     <<<<"H", "U", "D", "_", "C", "O", "L", "O", "U", "R", "_", "N", "E", "T", "_", "P", "L", "A", "Y", "E", "R", "7">>,
       "rgba(113, 169, 175, 255)">>,
     <<<<"H", "U", "D", "_", "C", "O", "L", "O", "U", "R", "_", "N", "E", "T", "_", "P", "L", "A", "Y", "E", "R", "8">>,
       "rgba(211, 209, 231, 255)">>,
     <<<<"H", "U", "D", "_", "C", "O", "L", "O", "U", "R", "_", "N", "E", "T", "_", "P", "L", "A", "Y", "E", "R", "9">>,
       "rgba(144, 127, 153, 255)">>,
     <<<<"H", "U", "D", "_", "C", "O", "L", "O", "U", "R", "_", "N", "E", "T", "_", "P", "L", "A", "Y", "E", "R", "1", "0">>,
       "rgba(106, 196, 191, 255)">>,
     <<<<"H", "U", "D", "_", "C", "O", "L", "O", "U", "R", "_", "N", "E", "T", "_", "P", "L", "A", "Y", "E", "R", "1", "1">>,
       "rgba(214, 196, 153, 255)">>,
     <<<<"H", "U", "D", "_", "C", "O", "L", "O", "U", "R", "_", "N", "E", "T", "_", "P", "L", "A", "Y", "E", "R", "1", "2">>,
       "rgba(234, 142, 80, 255)">>,
     <<<<"H", "U", "D", "_", "C", "O", "L", "O", "U", "R", "_", "N", "E", "T", "_", "P", "L", "A", "Y", "E", "R", "1", "3">>,
       "rgba(152, 203, 234, 255)">>,
     <<<<"H", "U", "D", "_", "C", "O", "L", "O", "U", "R", "_", "N", "E", "T", "_", "P", "L", "A", "Y", "E", "R", "1", "4">>,
       "rgba(178, 98, 135, 255)">>,
     <<<<"H", "U", "D", "_", "C", "O", "L", "O", "U", "R", "_", "N", "E", "T", "_", "P", "L", "A", "Y", "E", "R", "1", "5">>,
       "rgba(144, 142, 122, 255)">>,
     <<<<"H", "U", "D", "_", "C", "O", "L", "O", "U", "R", "_", "N", "E", "T", "_", "P", "L", "A", "Y", "E", "R", "1", "6">>,
       "rgba(166, 117, 94, 255)">>,
     <<<<"H", "U", "D", "_", "C", "O", "L", "O", "U", "R", "_", "N", "E", "T", "_", "P", "L", "A", "Y", "E", "R", "1", "7">>,
       "rgba(175, 168, 168, 255)">>,
     <<<<"H", "U", "D", "_", "C", "O", "L", "O", "U", "R", "_", "N", "E", "T", "_", "P", "L", "A", "Y", "E", "R", "1", "8">>,
       "rgba(232, 142, 155, 255)">>,
     <<<<"H", "U", "D", "_", "C", "O", "L", "O", "U", "R", "_", "N", "E", "T", "_", "P", "L", "A", "Y", "E", "R", "1", "9">>,
       "rgba(187, 214, 91, 255)">>,
     <<<<"H", "U", "D", "_", "C", "O", "L", "O", "U", "R", "_", "N", "E", "T", "_", "P", "L", "A", "Y", "E", "R", "2", "0">>,
       "rgba(12, 123, 86, 255)">>,
     <<<<"H", "U", "D", "_", "C", "O", "L", "O", "U", "R", "_", "N", "E", "T", "_", "P", "L", "A", "Y", "E", "R", "2", "1">>,
       "rgba(123, 196, 255, 255)">>,
     <<<<"H", "U", "D", "_", "C", "O", "L", "O", "U", "R", "_", "N", "E", "T", "_", "P", "L", "A", "Y", "E", "R", "2", "2">>,
       "rgba(171, 60, 230, 255)">>,
     <<<<"H", "U", "D", "_", "C", "O", "L", "O", "U", "R", "_", "N", "E", "T", "_", "P", "L", "A", "Y", "E", "R", "2", "3">>,
       "rgba(206, 169, 13, 255)">>,
     <<<<"H", "U", "D", "_", "C", "O", "L", "O", "U", "R", "_", "N", "E", "T", "_", "P", "L", "A", "Y", "E", "R", "2", "4">>,
       "rgba(71, 99, 173, 255)">>,
     <<<<"H", "U", "D", "_", "C", "O", "L", "O", "U", "R", "_", "N", "E", "T", "_", "P", "L", "A", "Y", "E", "R", "2", "5">>,
       "rgba(42, 166, 185, 255)">>,
     <<<<"H", "U", "D", "_", "C", "O", "L", "O", "U", "R", "_", "N", "E", "T", "_", "P", "L", "A", "Y", "E", "R", "2", "6">>,
       "rgba(186, 157, 125, 255)">>,
     <<<<"H", "U", "D", "_", "C", "O", "L", "O", "U", "R", "_", "N", "E", "T", "_", "P", "L", "A", "Y", "E", "R", "2", "7">>,
       "rgba(201, 225, 255, 255)">>,
     <<<<"H", "U", "D", "_", "C", "O", "L", "O", "U", "R", "_", "N", "E", "T", "_", "P", "L", "A", "Y", "E", "R", "2", "8">>,
       "rgba(240, 240, 150, 255)">>,
     <<<<"H", "U", "D", "_", "C", "O", "L", "O", "U", "R", "_", "N", "E", "T", "_", "P", "L", "A", "Y", "E", "R", "2", "9">>,
       "rgba(237, 140, 161, 255)">>,
     <<<<"H", "U", "D", "_", "C", "O", "L", "O", "U", "R", "_", "N", "E", "T", "_", "P", "L", "A", "Y", "E", "R", "3", "0">>,
       "rgba(249, 138, 138, 255)">>,
     <<<<"H", "U", "D", "_", "C", "O", "L", "O", "U", "R", "_", "N", "E", "T", "_", "P", "L", "A", "Y", "E", "R", "3", "1">>,
       "rgba(252, 239, 166, 255)">>,
     <<<<"H", "U", "D", "_", "C", "O", "L", "O", "U", "R", "_", "N", "E", "T", "_", "P", "L", "A", "Y", "E", "R", "3", "2">>,
       "rgba(240, 240, 240, 255)">>,
     <<<<"H", "U", "D", "_", "C", "O", "L", "O", "U", "R", "_", "S", "I", "M", "P", "L", "E", "B", "L", "I", "P", "_", "D", "E", "F", "A", "U", "L", "T">>,
       "rgba(159, 201, 166, 255)">>,
     <<<<"H", "U", "D", "_", "C", "O", "L", "O", "U", "R", "_", "M", "E", "N", "U", "_", "B", "L", "U", "E">>,
       "rgba(140, 140, 140, 255)">>,
     <<<<"H", "U", "D", "_", "C", "O", "L", "O", "U", "R", "_", "M", "E", "N", "U", "_", "G", "R", "E", "Y", "_", "L", "I", "G", "H", "T">>,
       "rgba(140, 140, 140, 255)">>,
     <<<<"H", "U", "D", "_", "C", "O", "L", "O", "U", "R", "_", "M", "E", "N", "U", "_", "B", "L", "U", "E", "_", "E", "X", "T", "R", "A", "_", "D", "A", "R", "K">>,
       "rgba(40, 40, 40, 255)">>,
     <<<<"H", "U", "D", "_", "C", "O", "L", "O", "U", "R", "_", "M", "E", "N", "U", "_", "Y", "E", "L", "L", "O", "W">>,
       "rgba(240, 160, 0, 255)">>,
     <<<<"H", "U", "D", "_", "C", "O", "L", "O", "U", "R", "_", "M", "E", "N", "U", "_", "Y", "E", "L", "L", "O", "W", "_", "D", "A", "R", "K">>,
       "rgba(240, 160, 0, 255)">>,
     <<<<"H", "U", "D", "_", "C", "O", "L", "O", "U", "R", "_", "M", "E", "N", "U", "_", "G", "R", "E", "E", "N">>,
       "rgba(240, 160, 0, 255)">>,
     <<<<"H", "U", "D", "_", "C", "O", "L", "O", "U", "R", "_", "M", "E", "N", "U", "_", "G", "R", "E", "Y">>,
       "rgba(140, 140, 140, 255)">>,
     <<<<"H", "U", "D", "_", "C", "O", "L", "O", "U", "R", "_", "M", "E", "N", "U", "_", "G", "R", "E", "Y", "_", "D", "A", "R", "K">>,
       "rgba(60, 60, 60, 255)">>,
     <<<<"H", "U", "D", "_", "C", "O", "L", "O", "U", "R", "_", "M", "E", "N", "U", "_", "H", "I", "G", "H", "L", "I", "G", "H", "T">>,
       "rgba(30, 30, 30, 255)">>,
     <<<<"H", "U", "D", "_", "C", "O", "L", "O", "U", "R", "_", "M", "E", "N", "U", "_", "S", "T", "A", "N", "D", "A", "R", "D">>,
       "rgba(140, 140, 140, 255)">>,
     <<<<"H", "U", "D", "_", "C", "O", "L", "O", "U", "R", "_", "M", "E", "N", "U", "_", "D", "I", "M", "M", "E", "D">>,
       "rgba(75, 75, 75, 255)">>,
     <<<<"H", "U", "D", "_", "C", "O", "L", "O", "U", "R", "_", "M", "E", "N", "U", "_", "E", "X", "T", "R", "A", "_", "D", "I", "M", "M", "E", "D">>,
       "rgba(50, 50, 50, 255)">>,
     <<<<"H", "U", "D", "_", "C", "O", "L", "O", "U", "R", "_", "B", "R", "I", "E", "F", "_", "T", "I", "T", "L", "E">>,
       "rgba(95, 95, 95, 255)">>,
     <<<<"H", "U", "D", "_", "C", "O", "L", "O", "U", "R", "_", "M", "I", "D", "_", "G", "R", "E", "Y", "_", "M", "P">>,
       "rgba(100, 100, 100, 255)">>,
     <<<<"H", "U", "D", "_", "C", "O", "L", "O", "U", "R", "_", "N", "E", "T", "_", "P", "L", "A", "Y", "E", "R", "1", "_", "D", "A", "R", "K">>,
       "rgba(93, 39, 39, 255)">>,
     <<<<"H", "U", "D", "_", "C", "O", "L", "O", "U", "R", "_", "N", "E", "T", "_", "P", "L", "A", "Y", "E", "R", "2", "_", "D", "A", "R", "K">>,
       "rgba(77, 55, 89, 255)">>,
     <<<<"H", "U", "D", "_", "C", "O", "L", "O", "U", "R", "_", "N", "E", "T", "_", "P", "L", "A", "Y", "E", "R", "3", "_", "D", "A", "R", "K">>,
       "rgba(124, 62, 99, 255)">>,
     <<<<"H", "U", "D", "_", "C", "O", "L", "O", "U", "R", "_", "N", "E", "T", "_", "P", "L", "A", "Y", "E", "R", "4", "_", "D", "A", "R", "K">>,
       "rgba(120, 80, 80, 255)">>,
     <<<<"H", "U", "D", "_", "C", "O", "L", "O", "U", "R", "_", "N", "E", "T", "_", "P", "L", "A", "Y", "E", "R", "5", "_", "D", "A", "R", "K">>,
       "rgba(87, 72, 66, 255)">>,
     <<<<"H", "U", "D", "_", "C", "O", "L", "O", "U", "R", "_", "N", "E", "T", "_", "P", "L", "A", "Y", "E", "R", "6", "_", "D", "A", "R", "K">>,
       "rgba(74, 103, 83, 255)">>,
     <<<<"H", "U", "D", "_", "C", "O", "L", "O", "U", "R", "_", "N", "E", "T", "_", "P", "L", "A", "Y", "E", "R", "7", "_", "D", "A", "R", "K">>,
       "rgba(60, 85, 88, 255)">>,
     <<<<"H", "U", "D", "_", "C", "O", "L", "O", "U", "R", "_", "N", "E", "T", "_", "P", "L", "A", "Y", "E", "R", "8", "_", "D", "A", "R", "K">>,
       "rgba(105, 105, 64, 255)">>,
     <<<<"H", "U", "D", "_", "C", "O", "L", "O", "U", "R", "_", "N", "E", "T", "_", "P", "L", "A", "Y", "E", "R", "9", "_", "D", "A", "R", "K">>,
       "rgba(72, 63, 76, 255)">>,
     <<<<"H", "U", "D", "_", "C", "O", "L", "O", "U", "R", "_", "N", "E", "T", "_", "P", "L", "A", "Y", "E", "R", "1", "0", "_", "D", "A", "R", "K">>,
       "rgba(53, 98, 95, 255)">>,
     <<<<"H", "U", "D", "_", "C", "O", "L", "O", "U", "R", "_", "N", "E", "T", "_", "P", "L", "A", "Y", "E", "R", "1", "1", "_", "D", "A", "R", "K">>,
       "rgba(107, 98, 76, 255)">>,
     <<<<"H", "U", "D", "_", "C", "O", "L", "O", "U", "R", "_", "N", "E", "T", "_", "P", "L", "A", "Y", "E", "R", "1", "2", "_", "D", "A", "R", "K">>,
       "rgba(117, 71, 40, 255)">>,
     <<<<"H", "U", "D", "_", "C", "O", "L", "O", "U", "R", "_", "N", "E", "T", "_", "P", "L", "A", "Y", "E", "R", "1", "3", "_", "D", "A", "R", "K">>,
       "rgba(76, 101, 117, 255)">>,
     <<<<"H", "U", "D", "_", "C", "O", "L", "O", "U", "R", "_", "N", "E", "T", "_", "P", "L", "A", "Y", "E", "R", "1", "4", "_", "D", "A", "R", "K">>,
       "rgba(65, 35, 47, 255)">>,
     <<<<"H", "U", "D", "_", "C", "O", "L", "O", "U", "R", "_", "N", "E", "T", "_", "P", "L", "A", "Y", "E", "R", "1", "5", "_", "D", "A", "R", "K">>,
       "rgba(72, 71, 61, 255)">>,
     <<<<"H", "U", "D", "_", "C", "O", "L", "O", "U", "R", "_", "N", "E", "T", "_", "P", "L", "A", "Y", "E", "R", "1", "6", "_", "D", "A", "R", "K">>,
       "rgba(85, 58, 47, 255)">>,
     <<<<"H", "U", "D", "_", "C", "O", "L", "O", "U", "R", "_", "N", "E", "T", "_", "P", "L", "A", "Y", "E", "R", "1", "7", "_", "D", "A", "R", "K">>,
       "rgba(87, 84, 84, 255)">>,
     <<<<"H", "U", "D", "_", "C", "O", "L", "O", "U", "R", "_", "N", "E", "T", "_", "P", "L", "A", "Y", "E", "R", "1", "8", "_", "D", "A", "R", "K">>,
       "rgba(116, 71, 77, 255)">>,
     <<<<"H", "U", "D", "_", "C", "O", "L", "O", "U", "R", "_", "N", "E", "T", "_", "P", "L", "A", "Y", "E", "R", "1", "9", "_", "D", "A", "R", "K">>,
       "rgba(93, 107, 45, 255)">>,
     <<<<"H", "U", "D", "_", "C", "O", "L", "O", "U", "R", "_", "N", "E", "T", "_", "P", "L", "A", "Y", "E", "R", "2", "0", "_", "D", "A", "R", "K">>,
       "rgba(6, 61, 43, 255)">>,
     <<<<"H", "U", "D", "_", "C", "O", "L", "O", "U", "R", "_", "N", "E", "T", "_", "P", "L", "A", "Y", "E", "R", "2", "1", "_", "D", "A", "R", "K">>,
       "rgba(61, 98, 127, 255)">>,
     <<<<"H", "U", "D", "_", "C", "O", "L", "O", "U", "R", "_", "N", "E", "T", "_", "P", "L", "A", "Y", "E", "R", "2", "2", "_", "D", "A", "R", "K">>,
       "rgba(85, 30, 115, 255)">>,
     <<<<"H", "U", "D", "_", "C", "O", "L", "O", "U", "R", "_", "N", "E", "T", "_", "P", "L", "A", "Y", "E", "R", "2", "3", "_", "D", "A", "R", "K">>,
       "rgba(103, 84, 6, 255)">>,
     <<<<"H", "U", "D", "_", "C", "O", "L", "O", "U", "R", "_", "N", "E", "T", "_", "P", "L", "A", "Y", "E", "R", "2", "4", "_", "D", "A", "R", "K">>,
       "rgba(35, 49, 86, 255)">>,
     <<<<"H", "U", "D", "_", "C", "O", "L", "O", "U", "R", "_", "N", "E", "T", "_", "P", "L", "A", "Y", "E", "R", "2", "5", "_", "D", "A", "R", "K">>,
       "rgba(21, 83, 92, 255)">>,
     <<<<"H", "U", "D", "_", "C", "O", "L", "O", "U", "R", "_", "N", "E", "T", "_", "P", "L", "A", "Y", "E", "R", "2", "6", "_", "D", "A", "R", "K">>,
       "rgba(93, 98, 62, 255)">>,
     <<<<"H", "U", "D", "_", "C", "O", "L", "O", "U", "R", "_", "N", "E", "T", "_", "P", "L", "A", "Y", "E", "R", "2", "7", "_", "D", "A", "R", "K">>,
       "rgba(100, 112, 127, 255)">>,
     <<<<"H", "U", "D", "_", "C", "O", "L", "O", "U", "R", "_", "N", "E", "T", "_", "P", "L", "A", "Y", "E", "R", "2", "8", "_", "D", "A", "R", "K">>,
       "rgba(120, 120, 75, 255)">>,
     <<<<"H", "U", "D", "_", "C", "O", "L", "O", "U", "R", "_", "N", "E", "T", "_", "P", "L", "A", "Y", "E", "R", "2", "9", "_", "D", "A", "R", "K">>,
       "rgba(152, 76, 93, 255)">>,
     <<<<"H", "U", "D", "_", "C", "O", "L", "O", "U", "R", "_", "N", "E", "T", "_", "P", "L", "A", "Y", "E", "R", "3", "0", "_", "D", "A", "R", "K">>,
       "rgba(124, 69, 69, 255)">>,
     <<<<"H", "U", "D", "_", "C", "O", "L", "O", "U", "R", "_", "N", "E", "T", "_", "P", "L", "A", "Y", "E", "R", "3", "1", "_", "D", "A", "R", "K">>,
       "rgba(10, 43, 50, 255)">>,
     <<<<"H", "U", "D", "_", "C", "O", "L", "O", "U", "R", "_", "N", "E", "T", "_", "P", "L", "A", "Y", "E", "R", "3", "2", "_", "D", "A", "R", "K">>,
       "rgba(95, 95, 10, 255)">>,
     <<<<"H", "U", "D", "_", "C", "O", "L", "O", "U", "R", "_", "B", "R", "O", "N", "Z", "E">>,
       "rgba(180, 130, 97, 255)">>,
     <<<<"H", "U", "D", "_", "C", "O", "L", "O", "U", "R", "_", "S", "I", "L", "V", "E", "R">>,
       "rgba(150, 153, 161, 255)">>,
     <<<<"H", "U", "D", "_", "C", "O", "L", "O", "U", "R", "_", "G", "O", "L", "D">>,
       "rgba(214, 181, 99, 255)">>,
     <<<<"H", "U", "D", "_", "C", "O", "L", "O", "U", "R", "_", "P", "L", "A", "T", "I", "N", "U", "M">>,
       "rgba(166, 221, 190, 255)">>,
     <<<<"H", "U", "D", "_", "C", "O", "L", "O", "U", "R", "_", "G", "A", "N", "G", "1">>,
       "rgba(29, 100, 153, 255)">>,
     <<<<"H", "U", "D", "_", "C", "O", "L", "O", "U", "R", "_", "G", "A", "N", "G", "2">>,
       "rgba(214, 116, 15, 255)">>,
     <<<<"H", "U", "D", "_", "C", "O", "L", "O", "U", "R", "_", "G", "A", "N", "G", "3">>,
       "rgba(135, 125, 142, 255)">>,
     <<<<"H", "U", "D", "_", "C", "O", "L", "O", "U", "R", "_", "G", "A", "N", "G", "4">>,
       "rgba(229, 119, 185, 255)">>,
     <<<<"H", "U", "D", "_", "C", "O", "L", "O", "U", "R", "_", "S", "A", "M", "E", "_", "C", "R", "E", "W">>,
       "rgba(252, 239, 166, 255)">>,
     <<<<"H", "U", "D", "_", "C", "O", "L", "O", "U", "R", "_", "F", "R", "E", "E", "M", "O", "D", "E">>,
       "rgba(45, 110, 185, 255)">>,
     <<<<"H", "U", "D", "_", "C", "O", "L", "O", "U", "R", "_", "P", "A", "U", "S", "E", "_", "B", "G">>,
       "rgba(0, 0, 0, 186)">>,
     <<<<"H", "U", "D", "_", "C", "O", "L", "O", "U", "R", "_", "F", "R", "I", "E", "N", "D", "L", "Y">>,
       "rgba(93, 182, 229, 255)">>,
     <<<<"H", "U", "D", "_", "C", "O", "L", "O", "U", "R", "_", "E", "N", "E", "M", "Y">>,
       "rgba(194, 80, 80, 255)">>,
     <<<<"H", "U", "D", "_", "C", "O", "L", "O", "U", "R", "_", "L", "O", "C", "A", "T", "I", "O", "N">>,
       "rgba(240, 200, 80, 255)">>,
     <<<<"H", "U", "D", "_", "C", "O", "L", "O", "U", "R", "_", "P", "I", "C", "K", "U", "P">>,
       "rgba(114, 204, 114, 255)">>,
     <<<<"H", "U", "D", "_", "C", "O", "L", "O", "U", "R", "_", "P", "A", "U", "S", "E", "_", "S", "I", "N", "G", "L", "E", "P", "L", "A", "Y", "E", "R">>,
       "rgba(114, 204, 114, 255)">>,
     <<<<"H", "U", "D", "_", "C", "O", "L", "O", "U", "R", "_", "F", "R", "E", "E", "M", "O", "D", "E", "_", "D", "A", "R", "K">>,
       "rgba(22, 55, 92, 255)">>,
     <<<<"H", "U", "D", "_", "C", "O", "L", "O", "U", "R", "_", "I", "N", "A", "C", "T", "I", "V", "E", "_", "M", "I", "S", "S", "I", "O", "N">>,
       "rgba(154, 154, 154, 255)">>,
     <<<<"H", "U", "D", "_", "C", "O", "L", "O", "U", "R", "_", "D", "A", "M", "A", "G", "E">>,
       "rgba(194, 80, 80, 255)">>,
     <<<<"H", "U", "D", "_", "C", "O", "L", "O", "U", "R", "_", "P", "I", "N", "K", "L", "I", "G", "H", "T">>,
       "rgba(252, 115, 201, 255)">>,
     <<<<"H", "U", "D", "_", "C", "O", "L", "O", "U", "R", "_", "P", "M", "_", "M", "I", "T", "E", "M", "_", "H", "I", "G", "H", "L", "I", "G", "H", "T">>,
       "rgba(252, 177, 49, 255)">>,
     <<<<"H", "U", "D", "_", "C", "O", "L", "O", "U", "R", "_", "S", "C", "R", "I", "P", "T", "_", "V", "A", "R", "I", "A", "B", "L", "E">>,
       "rgba(0, 0, 0, 255)">>,
     <<<<"H", "U", "D", "_", "C", "O", "L", "O", "U", "R", "_", "Y", "O", "G", "A">>,
       "rgba(109, 247, 204, 255)">>,
     <<<<"H", "U", "D", "_", "C", "O", "L", "O", "U", "R", "_", "T", "E", "N", "N", "I", "S">>,
       "rgba(241, 101, 34, 255)">>,
     <<<<"H", "U", "D", "_", "C", "O", "L", "O", "U", "R", "_", "G", "O", "L", "F">>,
       "rgba(214, 189, 97, 255)">>,
     <<<<"H", "U", "D", "_", "C", "O", "L", "O", "U", "R", "_", "S", "H", "O", "O", "T", "I", "N", "G", "_", "R", "A", "N", "G", "E">>,
       "rgba(112, 25, 25, 255)">>,
     <<<<"H", "U", "D", "_", "C", "O", "L", "O", "U", "R", "_", "F", "L", "I", "G", "H", "T", "_", "S", "C", "H", "O", "O", "L">>,
       "rgba(47, 92, 115, 255)">>,
     <<<<"H", "U", "D", "_", "C", "O", "L", "O", "U", "R", "_", "N", "O", "R", "T", "H", "_", "B", "L", "U", "E">>,
       "rgba(93, 182, 229, 255)">>,
     <<<<"H", "U", "D", "_", "C", "O", "L", "O", "U", "R", "_", "S", "O", "C", "I", "A", "L", "_", "C", "L", "U", "B">>,
       "rgba(234, 153, 28, 255)">>,
     <<<<"H", "U", "D", "_", "C", "O", "L", "O", "U", "R", "_", "P", "L", "A", "T", "F", "O", "R", "M", "_", "B", "L", "U", "E">>,
       "rgba(11, 55, 123, 255)">>,
     <<<<"H", "U", "D", "_", "C", "O", "L", "O", "U", "R", "_", "P", "L", "A", "T", "F", "O", "R", "M", "_", "G", "R", "E", "E", "N">>,
       "rgba(146, 200, 62, 255)">>,
     <<<<"H", "U", "D", "_", "C", "O", "L", "O", "U", "R", "_", "P", "L", "A", "T", "F", "O", "R", "M", "_", "G", "R", "E", "Y">>,
       "rgba(234, 153, 28, 255)">>,
     <<<<"H", "U", "D", "_", "C", "O", "L", "O", "U", "R", "_", "F", "A", "C", "E", "B", "O", "O", "K", "_", "B", "L", "U", "E">>,
       "rgba(66, 89, 148, 255)">>,
     <<<<"H", "U", "D", "_", "C", "O", "L", "O", "U", "R", "_", "I", "N", "G", "A", "M", "E", "_", "B", "G">>,
       "rgba(0, 0, 0, 186)">>,
     <<<<"H", "U", "D", "_", "C", "O", "L", "O", "U", "R", "_", "D", "A", "R", "T", "S">>,
       "rgba(114, 204, 114, 255)">>,
     <<<<"H", "U", "D", "_", "C", "O", "L", "O", "U", "R", "_", "W", "A", "Y", "P", "O", "I", "N", "T">>,
       "rgba(164, 76, 242, 255)">>,
     <<<<"H", "U", "D", "_", "C", "O", "L", "O", "U", "R", "_", "M", "I", "C", "H", "A", "E", "L">>,
       "rgba(101, 180, 212, 255)">>,
     <<<<"H", "U", "D", "_", "C", "O", "L", "O", "U", "R", "_", "F", "R", "A", "N", "K", "L", "I", "N">>,
       "rgba(171, 237, 171, 255)">>,
     <<<<"H", "U", "D", "_", "C", "O", "L", "O", "U", "R", "_", "T", "R", "E", "V", "O", "R">>,
       "rgba(255, 163, 87, 255)">>,
     <<<<"H", "U", "D", "_", "C", "O", "L", "O", "U", "R", "_", "G", "O", "L", "F", "_", "P", "1">>,
       "rgba(240, 240, 240, 255)">>,
     <<<<"H", "U", "D", "_", "C", "O", "L", "O", "U", "R", "_", "G", "O", "L", "F", "_", "P", "2">>,
       "rgba(235, 239, 30, 255)">>,
     <<<<"H", "U", "D", "_", "C", "O", "L", "O", "U", "R", "_", "G", "O", "L", "F", "_", "P", "3">>,
       "rgba(255, 149, 14, 255)">>,
     <<<<"H", "U", "D", "_", "C", "O", "L", "O", "U", "R", "_", "G", "O", "L", "F", "_", "P", "4">>,
       "rgba(246, 60, 161, 255)">>,
     <<<<"H", "U", "D", "_", "C", "O", "L", "O", "U", "R", "_", "W", "A", "Y", "P", "O", "I", "N", "T", "L", "I", "G", "H", "T">>,
       "rgba(210, 166, 249, 255)">>,
     <<<<"H", "U", "D", "_", "C", "O", "L", "O", "U", "R", "_", "W", "A", "Y", "P", "O", "I", "N", "T", "D", "A", "R", "K">>,
       "rgba(82, 38, 121, 255)">>,
     <<<<"H", "U", "D", "_", "C", "O", "L", "O", "U", "R", "_", "P", "A", "N", "E", "L", "_", "L", "I", "G", "H", "T">>,
       "rgba(0, 0, 0, 77)">>,
     <<<<"H", "U", "D", "_", "C", "O", "L", "O", "U", "R", "_", "M", "I", "C", "H", "A", "E", "L", "_", "D", "A", "R", "K">>,
       "rgba(72, 103, 116, 255)">>,
     <<<<"H", "U", "D", "_", "C", "O", "L", "O", "U", "R", "_", "F", "R", "A", "N", "K", "L", "I", "N", "_", "D", "A", "R", "K">>,
       "rgba(85, 118, 85, 255)">>,
     <<<<"H", "U", "D", "_", "C", "O", "L", "O", "U", "R", "_", "T", "R", "E", "V", "O", "R", "_", "D", "A", "R", "K">>,
       "rgba(127, 81, 43, 255)">>,
     <<<<"H", "U", "D", "_", "C", "O", "L", "O", "U", "R", "_", "O", "B", "J", "E", "C", "T", "I", "V", "E", "_", "R", "O", "U", "T", "E">>,
       "rgba(240, 200, 80, 255)">>,
     <<<<"H", "U", "D", "_", "C", "O", "L", "O", "U", "R", "_", "P", "A", "U", "S", "E", "M", "A", "P", "_", "T", "I", "N", "T">>,
       "rgba(0, 0, 0, 215)">>,
     <<<<"H", "U", "D", "_", "C", "O", "L", "O", "U", "R", "_", "P", "A", "U", "S", "E", "_", "D", "E", "S", "E", "L", "E", "C", "T">>,
       "rgba(100, 100, 100, 127)">>,
     <<<<"H", "U", "D", "_", "C", "O", "L", "O", "U", "R", "_", "P", "M", "_", "W", "E", "A", "P", "O", "N", "S", "_", "P", "U", "R", "C", "H", "A", "S", "A", "B", "L", "E">>,
       "rgba(45, 110, 185, 255)">>,
     <<<<"H", "U", "D", "_", "C", "O", "L", "O", "U", "R", "_", "P", "M", "_", "W", "E", "A", "P", "O", "N", "S", "_", "L", "O", "C", "K", "E", "D">>,
       "rgba(240, 240, 240, 191)">>,
     <<<<"H", "U", "D", "_", "C", "O", "L", "O", "U", "R", "_", "E", "N", "D", "_", "S", "C", "R", "E", "E", "N", "_", "B", "G">>,
       "rgba(0, 0, 0, 186)">>,
     <<<<"H", "U", "D", "_", "C", "O", "L", "O", "U", "R", "_", "C", "H", "O", "P">>,
       "rgba(224, 50, 50, 255)">>,
     <<<<"H", "U", "D", "_", "C", "O", "L", "O", "U", "R", "_", "P", "A", "U", "S", "E", "M", "A", "P", "_", "T", "I", "N", "T", "_", "H", "A", "L", "F">>,
       "rgba(0, 0, 0, 215)">>,
     <<<<"H", "U", "D", "_", "C", "O", "L", "O", "U", "R", "_", "N", "O", "R", "T", "H", "_", "B", "L", "U", "E", "_", "O", "F", "F", "I", "C", "I", "A", "L">>,
       "rgba(0, 71, 133, 255)">>,
     <<<<"H", "U", "D", "_", "C", "O", "L", "O", "U", "R", "_", "S", "C", "R", "I", "P", "T", "_", "V", "A", "R", "I", "A", "B", "L", "E", "_", "2">>,
       "rgba(0, 0, 0, 255)">>,
     <<<<"H", "U", "D", "_", "C", "O", "L", "O", "U", "R", "_", "H">>,
       "rgba(33, 118, 37, 255)">>,
     <<<<"H", "U", "D", "_", "C", "O", "L", "O", "U", "R", "_", "H", "D", "A", "R", "K">>,
       "rgba(37, 102, 40, 255)">>,
     <<<<"H", "U", "D", "_", "C", "O", "L", "O", "U", "R", "_", "T">>,
       "rgba(234, 153, 28, 255)">>,
     <<<<"H", "U", "D", "_", "C", "O", "L", "O", "U", "R", "_", "T", "D", "A", "R", "K">>,
       "rgba(225, 140, 8, 255)">>,
     <<<<"H", "U", "D", "_", "C", "O", "L", "O", "U", "R", "_", "H", "S", "H", "A", "R", "D">>,
       "rgba(20, 40, 0, 255)">>,
     <<<<"H", "U", "D", "_", "C", "O", "L", "O", "U", "R", "_", "C", "O", "N", "T", "R", "O", "L", "L", "E", "R", "_", "M", "I", "C", "H", "A", "E", "L">>,
       "rgba(48, 255, 255, 255)">>,
     <<<<"H", "U", "D", "_", "C", "O", "L", "O", "U", "R", "_", "C", "O", "N", "T", "R", "O", "L", "L", "E", "R", "_", "F", "R", "A", "N", "K", "L", "I", "N">>,
       "rgba(48, 255, 0, 255)">>,
     <<<<"H", "U", "D", "_", "C", "O", "L", "O", "U", "R", "_", "C", "O", "N", "T", "R", "O", "L", "L", "E", "R", "_", "T", "R", "E", "V", "O", "R">>,
       "rgba(176, 80, 0, 255)">>,
     <<<<"H", "U", "D", "_", "C", "O", "L", "O", "U", "R", "_", "C", "O", "N", "T", "R", "O", "L", "L", "E", "R", "_", "C", "H", "O", "P">>,
       "rgba(127, 0, 0, 255)">>,
     <<<<"H", "U", "D", "_", "C", "O", "L", "O", "U", "R", "_", "V", "I", "D", "E", "O", "_", "E", "D", "I", "T", "O", "R", "_", "V", "I", "D", "E", "O">>,
       "rgba(53, 166, 224, 255)">>,
     <<<<"H", "U", "D", "_", "C", "O", "L", "O", "U", "R", "_", "V", "I", "D", "E", "O", "_", "E", "D", "I", "T", "O", "R", "_", "A", "U", "D", "I", "O">>,
       "rgba(162, 79, 157, 255)">>,
     <<<<"H", "U", "D", "_", "C", "O", "L", "O", "U", "R", "_", "V", "I", "D", "E", "O", "_", "E", "D", "I", "T", "O", "R", "_", "T", "E", "X", "T">>,
       "rgba(104, 192, 141, 255)">>,
     <<<<"H", "U", "D", "_", "C", "O", "L", "O", "U", "R", "_", "H", "B", "_", "B", "L", "U", "E">>,
       "rgba(29, 100, 153, 255)">>,
     <<<<"H", "U", "D", "_", "C", "O", "L", "O", "U", "R", "_", "H", "B", "_", "Y", "E", "L", "L", "O", "W">>,
       "rgba(234, 153, 28, 255)">>,
     <<<<"H", "U", "D", "_", "C", "O", "L", "O", "U", "R", "_", "V", "I", "D", "E", "O", "_", "E", "D", "I", "T", "O", "R", "_", "S", "C", "O", "R", "E">>,
       "rgba(240, 160, 1, 255)">>,
     <<<<"H", "U", "D", "_", "C", "O", "L", "O", "U", "R", "_", "V", "I", "D", "E", "O", "_", "E", "D", "I", "T", "O", "R", "_", "A", "U", "D", "I", "O", "_", "F", "A", "D", "E", "O", "U", "T">>,
       "rgba(59, 34, 57, 255)">>,
     <<<<"H", "U", "D", "_", "C", "O", "L", "O", "U", "R", "_", "V", "I", "D", "E", "O", "_", "E", "D", "I", "T", "O", "R", "_", "T", "E", "X", "T", "_", "F", "A", "D", "E", "O", "U", "T">>,
       "rgba(41, 68, 53, 255)">>,
     <<<<"H", "U", "D", "_", "C", "O", "L", "O", "U", "R", "_", "V", "I", "D", "E", "O", "_", "E", "D", "I", "T", "O", "R", "_", "S", "C", "O", "R", "E", "_", "F", "A", "D", "E", "O", "U", "T">>,
       "rgba(82, 58, 10, 255)">>,
     <<<<"H", "U", "D", "_", "C", "O", "L", "O", "U", "R", "_", "H", "E", "I", "S", "T", "_", "B", "A", "C", "K", "G", "R", "O", "U", "N", "D">>,
       "rgba(37, 102, 40, 186)">>,
     <<<<"H", "U", "D", "_", "C", "O", "L", "O", "U", "R", "_", "V", "I", "D", "E", "O", "_", "E", "D", "I", "T", "O", "R", "_", "A", "M", "B", "I", "E", "N", "T">>,
       "rgba(240, 200, 80, 255)">>,
     <<<<"H", "U", "D", "_", "C", "O", "L", "O", "U", "R", "_", "V", "I", "D", "E", "O", "_", "E", "D", "I", "T", "O", "R", "_", "A", "M", "B", "I", "E", "N", "T", "_", "F", "A", "D", "E", "O", "U", "T">>,
       "rgba(80, 70, 34, 255)">>,
     <<<<"H", "U", "D", "_", "C", "O", "L", "O", "U", "R", "_", "V", "I", "D", "E", "O", "_", "E", "D", "I", "T", "O", "R", "_", "A", "M", "B", "I", "E", "N", "T", "_", "D", "A", "R", "K">>,
       "rgba(255, 133, 85, 255)">>,
     <<<<"H", "U", "D", "_", "C", "O", "L", "O", "U", "R", "_", "V", "I", "D", "E", "O", "_", "E", "D", "I", "T", "O", "R", "_", "A", "M", "B", "I", "E", "N", "T", "_", "L", "I", "G", "H", "T">>,
       "rgba(255, 194, 170, 255)">>,
     <<<<"H", "U", "D", "_", "C", "O", "L", "O", "U", "R", "_", "V", "I", "D", "E", "O", "_", "E", "D", "I", "T", "O", "R", "_", "A", "M", "B", "I", "E", "N", "T", "_", "M", "I", "D">>,
       "rgba(255, 133, 85, 255)">>,
     <<<<"H", "U", "D", "_", "C", "O", "L", "O", "U", "R", "_", "L", "O", "W", "_", "F", "L", "O", "W">>,
       "rgba(240, 200, 80, 255)">>,
     <<<<"H", "U", "D", "_", "C", "O", "L", "O", "U", "R", "_", "L", "O", "W", "_", "F", "L", "O", "W", "_", "D", "A", "R", "K">>,
       "rgba(126, 107, 41, 255)">>,
     <<<<"H", "U", "D", "_", "C", "O", "L", "O", "U", "R", "_", "G", "1">>,
       "rgba(247, 159, 123, 255)">>,
     <<<<"H", "U", "D", "_", "C", "O", "L", "O", "U", "R", "_", "G", "2">>,
       "rgba(226, 134, 187, 255)">>,
     <<<<"H", "U", "D", "_", "C", "O", "L", "O", "U", "R", "_", "G", "3">>,
       "rgba(239, 238, 151, 255)">>,
     <<<<"H", "U", "D", "_", "C", "O", "L", "O", "U", "R", "_", "G", "4">>,
       "rgba(113, 169, 175, 255)">>,
     <<<<"H", "U", "D", "_", "C", "O", "L", "O", "U", "R", "_", "G", "5">>,
       "rgba(160, 140, 193, 255)">>,
     <<<<"H", "U", "D", "_", "C", "O", "L", "O", "U", "R", "_", "G", "6">>,
       "rgba(141, 206, 167, 255)">>,
     <<<<"H", "U", "D", "_", "C", "O", "L", "O", "U", "R", "_", "G", "7">>,
       "rgba(181, 214, 234, 255)">>,
     <<<<"H", "U", "D", "_", "C", "O", "L", "O", "U", "R", "_", "G", "8">>,
       "rgba(178, 144, 132, 255)">>,
     <<<<"H", "U", "D", "_", "C", "O", "L", "O", "U", "R", "_", "G", "9">>,
       "rgba(0, 132, 114, 255)">>,
     <<<<"H", "U", "D", "_", "C", "O", "L", "O", "U", "R", "_", "G", "1", "0">>,
       "rgba(216, 85, 117, 255)">>,
     <<<<"H", "U", "D", "_", "C", "O", "L", "O", "U", "R", "_", "G", "1", "1">>,
       "rgba(30, 100, 152, 255)">>,
     <<<<"H", "U", "D", "_", "C", "O", "L", "O", "U", "R", "_", "G", "1", "2">>,
       "rgba(43, 181, 117, 255)">>,
     <<<<"H", "U", "D", "_", "C", "O", "L", "O", "U", "R", "_", "G", "1", "3">>,
       "rgba(233, 141, 79, 255)">>,
     <<<<"H", "U", "D", "_", "C", "O", "L", "O", "U", "R", "_", "G", "1", "4">>,
       "rgba(137, 210, 215, 255)">>,
     <<<<"H", "U", "D", "_", "C", "O", "L", "O", "U", "R", "_", "G", "1", "5">>,
       "rgba(134, 125, 141, 255)">>,
     <<<<"H", "U", "D", "_", "C", "O", "L", "O", "U", "R", "_", "A", "D", "V", "E", "R", "S", "A", "R", "Y">>,
       "rgba(109, 34, 33, 255)">>,
     <<<<"H", "U", "D", "_", "C", "O", "L", "O", "U", "R", "_", "D", "E", "G", "E", "N", "_", "R", "E", "D">>,
       "rgba(255, 0, 0, 255)">>,
     <<<<"H", "U", "D", "_", "C", "O", "L", "O", "U", "R", "_", "D", "E", "G", "E", "N", "_", "Y", "E", "L", "L", "O", "W">>,
       "rgba(255, 255, 0, 255)">>,
     <<<<"H", "U", "D", "_", "C", "O", "L", "O", "U", "R", "_", "D", "E", "G", "E", "N", "_", "G", "R", "E", "E", "N">>,
       "rgba(0, 255, 0, 255)">>,
     <<<<"H", "U", "D", "_", "C", "O", "L", "O", "U", "R", "_", "D", "E", "G", "E", "N", "_", "C", "Y", "A", "N">>,
       "rgba(0, 255, 255, 255)">>,
     <<<<"H", "U", "D", "_", "C", "O", "L", "O", "U", "R", "_", "D", "E", "G", "E", "N", "_", "B", "L", "U", "E">>,
       "rgba(0, 0, 255, 255)">>,
     <<<<"H", "U", "D", "_", "C", "O", "L", "O", "U", "R", "_", "D", "E", "G", "E", "N", "_", "M", "A", "G", "E", "N", "T", "A">>,
       "rgba(255, 0, 255, 255)">>,
     <<<<"H", "U", "D", "_", "C", "O", "L", "O", "U", "R", "_", "S", "T", "U", "N", "T", "_", "1">>,
       "rgba(38, 136, 234, 255)">>,
     <<<<"H", "U", "D", "_", "C", "O", "L", "O", "U", "R", "_", "S", "T", "U", "N", "T", "_", "2">>,
       "rgba(224, 50, 50, 255)">>,
     <<<<"H", "U", "D", "_", "C", "O", "L", "O", "U", "R", "_", "S", "P", "E", "C", "I", "A", "L", "_", "R", "A", "C", "E", "_", "S", "E", "R", "I", "E", "S">>,
       "rgba(154, 178, 54, 255)">>,
     <<<<"H", "U", "D", "_", "C", "O", "L", "O", "U", "R", "_", "S", "P", "E", "C", "I", "A", "L", "_", "R", "A", "C", "E", "_", "S", "E", "R", "I", "E", "S", "_", "D", "A", "R", "K">>,
       "rgba(93, 107, 45, 255)">>,
     <<<<"H", "U", "D", "_", "C", "O", "L", "O", "U", "R", "_", "C", "S">>,
       "rgba(206, 169, 13, 255)">>,
     <<<<"H", "U", "D", "_", "C", "O", "L", "O", "U", "R", "_", "C", "S", "_", "D", "A", "R", "K">>,
       "rgba(103, 84, 6, 255)">>,
     <<<<"H", "U", "D", "_", "C", "O", "L", "O", "U", "R", "_", "T", "E", "C", "H", "_", "G", "R", "E", "E", "N">>,
       "rgba(0, 151, 151, 255)">>,
     <<<<"H", "U", "D", "_", "C", "O", "L", "O", "U", "R", "_", "T", "E", "C", "H", "_", "G", "R", "E", "E", "N", "_", "D", "A", "R", "K">>,
       "rgba(5, 119, 113, 255)">>,
     <<<<"H", "U", "D", "_", "C", "O", "L", "O", "U", "R", "_", "T", "E", "C", "H", "_", "R", "E", "D">>,
       "rgba(151, 0, 0, 255)">>,
     <<<<"H", "U", "D", "_", "C", "O", "L", "O", "U", "R", "_", "T", "E", "C", "H", "_", "G", "R", "E", "E", "N", "_", "V", "E", "R", "Y", "_", "D", "A", "R", "K">>,
       "rgba(0, 40, 40, 255)">>,
     <<<<"H", "U", "D", "_", "C", "O", "L", "O", "U", "R", "_", "P", "L", "A", "C", "E", "H", "O", "L", "D", "E", "R", "_", "0", "1">>,
       "rgba(255, 255, 255, 255)">>,
     <<<<"H", "U", "D", "_", "C", "O", "L", "O", "U", "R", "_", "P", "L", "A", "C", "E", "H", "O", "L", "D", "E", "R", "_", "0", "2">>,
       "rgba(255, 255, 255, 255)">>,
     <<<<"H", "U", "D", "_", "C", "O", "L", "O", "U", "R", "_", "P", "L", "A", "C", "E", "H", "O", "L", "D", "E", "R", "_", "0", "3">>,
       "rgba(255, 255, 255, 255)">>,
     <<<<"H", "U", "D", "_", "C", "O", "L", "O", "U", "R", "_", "P", "L", "A", "C", "E", "H", "O", "L", "D", "E", "R", "_", "0", "4">>,
       "rgba(255, 255, 255, 255)">>,
     <<<<"H", "U", "D", "_", "C", "O", "L", "O", "U", "R", "_", "P", "L", "A", "C", "E", "H", "O", "L", "D", "E", "R", "_", "0", "5">>,
       "rgba(255, 255, 255, 255)">>,
     <<<<"H", "U", "D", "_", "C", "O", "L", "O", "U", "R", "_", "P", "L", "A", "C", "E", "H", "O", "L", "D", "E", "R", "_", "0", "6">>,
       "rgba(255, 255, 255, 255)">>,
     <<<<"H", "U", "D", "_", "C", "O", "L", "O", "U", "R", "_", "P", "L", "A", "C", "E", "H", "O", "L", "D", "E", "R", "_", "0", "7">>,
       "rgba(255, 255, 255, 255)">>,
     <<<<"H", "U", "D", "_", "C", "O", "L", "O", "U", "R", "_", "P", "L", "A", "C", "E", "H", "O", "L", "D", "E", "R", "_", "0", "8">>,
       "rgba(255, 255, 255, 255)">>,
     <<<<"H", "U", "D", "_", "C", "O", "L", "O", "U", "R", "_", "P", "L", "A", "C", "E", "H", "O", "L", "D", "E", "R", "_", "0", "9">>,
       "rgba(255, 255, 255, 255)">>,
     <<<<"H", "U", "D", "_", "C", "O", "L", "O", "U", "R", "_", "P", "L", "A", "C", "E", "H", "O", "L", "D", "E", "R", "_", "1", "0">>,
       "rgba(255, 255, 255, 255)">>
    }

\* GTA_FORMAT_REPLACEMENT_TABLE with a rule whose replacement is the pattern
\* of another rule.
ReplacementTableChained ==
    <<<<<<"~", "r", "~">>, <<"~", "H", "U", "D", "_", "C", "O", "L", "O", "U", "R", "_", "R", "E", "D", "~">>>>,
      <<<<"~", "g", "~">>, <<"~", "r", "~">>>>>>

\* GTA_FORMAT_REPLACEMENT_TABLE, lines 260-275: <<pattern, replacement>>.
GTA_FORMAT_REPLACEMENT_TABLE ==
    <<
      <<<<"~", "r", "~">>,
        <<"~", "H", "U", "D", "_", "C", "O", "L", "O", "U", "R", "_", "R", "E", "D", "~">>>>,
      <<<<"~", "g", "~">>,
        <<"~", "H", "U", "D", "_", "C", "O", "L", "O", "U", "R", "_", "G", "R", "E", "E", "N", "~">>>>,
      <<<<"~", "b", "~">>,
        <<"~", "H", "U", "D", "_", "C", "O", "L", "O", "U", "R", "_", "B", "L", "U", "E", "~">>>>,
      <<<<"~", "f", "~">>,
        <<"~", "H", "U", "D", "_", "C", "O", "L", "O", "U", "R", "_", "F", "R", "I", "E", "N", "D", "L", "Y", "~">>>>,
      <<<<"~", "y", "~">>,
        <<"~", "H", "U", "D", "_", "C", "O", "L", "O", "U", "R", "_", "Y", "E", "L", "L", "O", "W", "~">>>>,
      <<<<"~", "c", "~">>,
        <<"~", "H", "U", "D", "_", "C", "O", "L", "O", "U", "R", "_", "M", "E", "N", "U", "_", "G", "R", "E", "Y", "~">>>>,
      <<<<"~", "t", "~">>,
        <<"~", "H", "U", "D", "_", "C", "O", "L", "O", "U", "R", "_", "M", "E", "N", "U", "_", "G", "R", "E", "Y", "~">>>>,
      <<<<"~", "o", "~">>,
        <<"~", "H", "U", "D", "_", "C", "O", "L", "O", "U", "R", "_", "O", "R", "A", "N", "G", "E", "~">>>>,
      <<<<"~", "p", "~">>,
        <<"~", "H", "U", "D", "_", "C", "O", "L", "O", "U", "R", "_", "P", "U", "R", "P", "L", "E", "~">>>>,
      <<<<"~", "q", "~">>,
        <<"~", "H", "U", "D", "_", "C", "O", "L", "O", "U", "R", "_", "P", "I", "N", "K", "~">>>>,
      <<<<"~", "m", "~">>,
        <<"~", "H", "U", "D", "_", "C", "O", "L", "O", "U", "R", "_", "M", "I", "D", "_", "G", "R", "E", "Y", "_", "M", "P", "~">>>>,
      <<<<"~", "l", "~">>,
        <<"~", "H", "U", "D", "_", "C", "O", "L", "O", "U", "R", "_", "B", "L", "A", "C", "K", "~">>>>,
      <<<<"~", "d", "~">>,
        <<"~", "H", "U", "D", "_", "C", "O", "L", "O", "U", "R", "_", "B", "L", "U", "E", "D", "A", "R", "K", "~">>>>,
      <<<<"~", "s", "~">>,
        <<"~", "H", "U", "D", "_", "C", "O", "L", "O", "U", "R", "_", "G", "R", "E", "Y", "L", "I", "G", "H", "T", "~">>>>
    >>

\* Text t holds the characters lit from position p on.
LiteralAt(t, p, lit) ==
    /\ p + Len(lit) - 1 <= Len(t)
    /\ t[p] = lit[1]
    /\ SubSeq(t, p, p + Len(lit) - 1) = lit

\* The first position from p on at which text t holds the characters lit,
\* or 0.
RECURSIVE NextLiteral(_, _, _)
NextLiteral(t, p, lit) ==
    IF p + Len(lit) - 1 > Len(t) THEN 0
    ELSE IF LiteralAt(t, p, lit) THEN p
    ELSE NextLiteral(t, p + 1, lit)

\* re.sub(pattern, replacement, t) from position p on, for a pattern without
\* special characters: the leftmost match is replaced and the search goes on
\* behind it, in the text as it was.
RECURSIVE SubFrom(_, _, _, _)
SubFrom(pattern, replacement, t, p) ==
    LET m == NextLiteral(t, p, pattern)
    IN  IF m = 0 THEN SubSeq(t, p, Len(t))
        ELSE SubSeq(t, p, m - 1) \o replacement
               \o SubFrom(pattern, replacement, t, m + Len(pattern))

re_sub(pattern, replacement, t) == SubFrom(pattern, replacement, t, 1)

\* regex_replace_multiple, lines 280-283: the rules are applied one after the
\* other, each to the result of the one before.
RECURSIVE regex_replace_multiple(_, _)
regex_replace_multiple(t, replacement_table) ==
    IF replacement_table = <<>> THEN t
    ELSE regex_replace_multiple(
             re_sub(Head(replacement_table)[1], Head(replacement_table)[2], t),
             Tail(replacement_table))

\* The number of digits text t holds from position p on.
RECURSIVE DigitRun(_, _)
DigitRun(t, p) ==
    IF p <= Len(t) /\ t[p] \in Digits THEN 1 + DigitRun(t, p + 1) ELSE 0

\* "[0-9]{1,3}" followed by the character c, from position p: the position
\* behind c, or 0 when there is no match.
DigitsThen(t, p, c) ==
    LET n == DigitRun(t, p)
    IN  IF p # 0 /\ n \in 1..3 /\ p + n <= Len(t) /\ t[p + n] = c
        THEN p + n + 1 ELSE 0

\* ".+?~" from position p: one character, then on to the first tilde; no
\* line end in between.  The position of that tilde, or 0.
RECURSIVE LazyTildeFrom(_, _)
LazyTildeFrom(t, j) ==
    IF j > Len(t) THEN 0
    ELSE IF t[j] = "~" THEN j
    ELSE IF t[j] = "\n" THEN 0
    ELSE LazyTildeFrom(t, j + 1)

LazyTilde(t, p) ==
    IF p > Len(t) \/ t[p] = "\n" THEN 0 ELSE LazyTildeFrom(t, p + 1)

HUD_PREFIX == <<"~", "H", "U", "D", "_", "C", "O", "L", "O", "U", "R", "_">>
HC_PREFIX == <<"~", "H", "C", "_">>
CC_PREFIX == <<"~", "C", "C", "_">>

\* GROUP_REGEX (line 455) at position p of text t: the position behind the
\* match, or 0.  The alternatives are tried in the order they are written.
GroupEnd(t, p) ==
    IF LiteralAt(t, p, <<"~", "h", "~">>) THEN p + 3
    ELSE IF LiteralAt(t, p, <<"~", "n", "~">>) THEN p + 3
    ELSE IF LiteralAt(t, p, <<"~", "b", "o", "l", "d", "~">>) THEN p + 6
    ELSE IF LiteralAt(t, p, <<"~", "i", "t", "a", "l", "i", "c", "~">>)
         THEN p + 8
    ELSE IF LiteralAt(t, p, <<"(", "C", ")">>) THEN p + 3
    ELSE IF LiteralAt(t, p, <<"(", "/", "C", ")">>) THEN p + 4
    ELSE IF LiteralAt(t, p, HUD_PREFIX) /\ LazyTilde(t, p + Len(HUD_PREFIX)) # 0
         THEN LazyTilde(t, p + Len(HUD_PREFIX)) + 1
    ELSE IF LiteralAt(t, p, HC_PREFIX) /\ LazyTilde(t, p + Len(HC_PREFIX)) # 0
         THEN LazyTilde(t, p + Len(HC_PREFIX)) + 1
    ELSE IF LiteralAt(t, p, CC_PREFIX)
         THEN DigitsThen(t, DigitsThen(t, DigitsThen(t, p + Len(CC_PREFIX), "_"),
                                       "_"), "~")
    ELSE 0

\* re.split(GROUP_REGEX, t): the texts between the matches, from the text that
\* begins at start, scanning from position p.
RECURSIVE SplitFrom(_, _, _)
SplitFrom(t, p, start) ==
    IF p > Len(t) THEN <<SubSeq(t, start, Len(t))>>
    ELSE LET e == GroupEnd(t, p)
         IN  IF e # 0 THEN <<SubSeq(t, start, p - 1)>> \o SplitFrom(t, e, e)
             ELSE SplitFrom(t, p + 1, start)

\* re.split(GROUP_REGEX, t, 1): the text is split at the first match only.
RECURSIVE SplitOnceFrom(_, _)
SplitOnceFrom(t, p) ==
    IF p > Len(t) THEN <<t>>
    ELSE LET e == GroupEnd(t, p)
         IN  IF e # 0 THEN <<SubSeq(t, 1, p - 1), SubSeq(t, e, Len(t))>>
             ELSE SplitOnceFrom(t, p + 1)

re_split_once(t) == SplitOnceFrom(t, 1)

re_split(t) == SplitFrom(t, 1, 1)

\* re.findall(GROUP_REGEX, t): the matches, from position p on.
RECURSIVE FindActionsFrom(_, _)
FindActionsFrom(t, p) ==
    IF p > Len(t) THEN <<>>
    ELSE LET e == GroupEnd(t, p)
         IN  IF e # 0 THEN <<SubSeq(t, p, e - 1)>> \o FindActionsFrom(t, e)
             ELSE FindActionsFrom(t, p + 1)

re_findall(t) == FindActionsFrom(t, 1)

\* The style state of the loop of add_formatted_text_to_html.
Style == [bolded |-> bolded, italic |-> italic, color |-> color,
          condensed |-> condensed, new_line |-> new_line]

\* Lines 456-460: the state the loop starts with.
InitialStyle == [bolded |-> FALSE, italic |-> FALSE, color |-> "rgb(205,205,205)",
                 condensed |-> 0, new_line |-> FALSE]

\* Line 480, re.findall of the two-group pattern in a directive: one pair
\* <<group 1, group 2>> for the match, the group that did not take part empty.
HUDColorMatches(formatting) ==
    IF LiteralAt(formatting, 1, HUD_PREFIX)
    THEN <<<<SubSeq(formatting, 2, Len(formatting) - 1), <<>>>>>>
    ELSE IF LiteralAt(formatting, 1, HC_PREFIX)
    THEN <<<<<<>>, SubSeq(formatting, 2, Len(formatting) - 1)>>>>
    ELSE <<>>

\* Line 483, re.findall of the custom colour pattern in a directive.
CustomColorMatches(formatting) ==
    IF LiteralAt(formatting, 1, CC_PREFIX)
    THEN <<SubSeq(formatting, Len(CC_PREFIX) + 1, Len(formatting) - 1)>>
    ELSE <<>>

HasColor(name) == \E e \in GTA_HUD_COLORS : e[1] = name
ColorOf(name) == (CHOOSE e \in GTA_HUD_COLORS : e[1] = name)[2]

\* The outcome of a directive: the exception raised, if any, and the state.
Outcome(exception, st) == [raised |-> exception, st |-> st]

\* The match statement with the italic directive taken for a bold one.
ApplyFormattingItalicAsBold(st, formatting) ==
    IF formatting \in {<<"~", "h", "~">>, <<"~", "b", "o", "l", "d", "~">>,
                       <<"~", "i", "t", "a", "l", "i", "c", "~">>}
    THEN Outcome(NoException, [st EXCEPT !.bolded = ~@])
    ELSE Outcome(NoException, st)

\* Lines 468-485, the match statement: the state after the directive.  The
\* name of a colour is looked up with the first group of the first match,
\* which is empty for the ~HC_...~ form; a list has no method join.
ApplyFormatting(st, formatting) ==
    IF formatting \in {<<"~", "h", "~">>, <<"~", "b", "o", "l", "d", "~">>}
    THEN Outcome(NoException, [st EXCEPT !.bolded = ~@])
    ELSE IF formatting = <<"~", "i", "t", "a", "l", "i", "c", "~">>
    THEN Outcome(NoException, [st EXCEPT !.italic = ~@])
    ELSE IF formatting = <<"(", "C", ")">>
    THEN Outcome(NoException, [st EXCEPT !.condensed = @ + 1])
    ELSE IF formatting = <<"(", "/", "C", ")">>
    THEN Outcome(NoException, [st EXCEPT !.condensed = @ - 1])
    ELSE IF formatting = <<"~", "n", "~">>
    THEN Outcome(NoException, [st EXCEPT !.new_line = ~@])
    ELSE LET hud == HUDColorMatches(formatting)
             custom == CustomColorMatches(formatting)
         IN  IF hud # <<>> /\ ~HasColor(hud[1][1])
             THEN Outcome("KeyError", st)
             ELSE LET st1 == IF hud # <<>>
                             THEN [st EXCEPT !.color = ColorOf(hud[1][1])]
                             ELSE st
                  IN  IF custom # <<>> THEN Outcome("AttributeError", st1)
                      ELSE Outcome(NoException, st1)

\* <span> and <br> as added to the body of the document.
Span(content, classes, style) ==
    [tag |-> "span", content |-> content, classes |-> classes, style |-> style]

Br == [tag |-> "br", content |-> <<>>, classes |-> <<>>, style |-> ""]

\* Lines 486-494: the classes and the style attribute of a state.
Classes(st) ==
    (IF st.condensed > 0 THEN <<"condensed">> ELSE <<>>)
        \o (IF st.bolded THEN <<"bolded">> ELSE <<>>)

StyleAttr(st) ==
    (IF st.italic THEN "font-style: italic;" ELSE "") \o "color: " \o st.color \o ";"

\* Lines 495-503 with the line break added whatever the flag is.
EmitAlwaysBreak(st, fragment) ==
    (IF fragment # <<>> THEN <<Span(fragment, Classes(st), StyleAttr(st))>> ELSE <<>>)
        \o <<Br>>

\* Lines 495-503: the nodes added for a fragment in state st.
Emit(st, fragment) ==
    (IF fragment # <<>> THEN <<Span(fragment, Classes(st), StyleAttr(st))>> ELSE <<>>)
        \o (IF st.new_line THEN <<Br>> ELSE <<>>)

\* Lines 464-466: the node added for the text before the first directive.
EmitFirst(fragment) ==
    IF fragment # <<>>
    THEN <<Span(fragment, <<>>, "color: " \o InitialStyle.color \o ";")>>
    ELSE <<>>

\* <h1>, <h2> and <h3> as added to the body of the document (lines 511, 545
\* and 578).
Heading(tag, content) ==
    [tag |-> tag, content |-> content, classes |-> <<>>, style |-> ""]

\* dominate's tag(content) for a content that may be None: the library, which
\* is no part of the repository, either refuses what is neither a tag nor a
\* string (ValueError) or takes it.
AddHeading(v, tag, content) ==
    IF Raising(v) THEN v
    ELSE IF content = None /\ v.refuses_none THEN Raise(v, "ValueError")
    ELSE [v EXCEPT !.body = Append(@, Heading(tag, content))]

\* Lines 466-503, the loop from its turn i on: the nodes added, and the
\* exception that ended it, if any.
RECURSIVE PreviewLoop(_, _, _, _, _)
PreviewLoop(nodes, st, fragments, actions, i) ==
    IF i >= Len(fragments) - 1 THEN [raised |-> NoException, body |-> nodes]
    ELSE LET o == ApplyFormatting(st, actions[i + 1])
         IN  IF o.raised # NoException THEN [raised |-> o.raised, body |-> nodes]
             ELSE PreviewLoop(nodes \o Emit(o.st, fragments[i + 2]), o.st,
                              fragments, actions, i + 1)

\* add_formatted_text_to_html(text), lines 453-503: the nodes are added to
\* the body of main_doc; an exception of the match statement leaves the call.
add_formatted_text_to_html(v, t) ==
    IF Raising(v) THEN v
    ELSE LET rw == regex_replace_multiple(t, GTA_FORMAT_REPLACEMENT_TABLE)
             fragments == re_split(rw)
             o == PreviewLoop(v.body \o EmitFirst(fragments[1]), InitialStyle,
                              fragments, re_findall(rw), 0)
         IN  [v EXCEPT !.body = o.body, !.raised = o.raised]

----------------------------------------------------------------------------
(* Validator.check_entries                                                 *)

\* Mutant of LastFormat: the first directive instead of the last.
FirstFormat(found_formats) == found_formats[1]

\* found_formats[-1] (lines 567 and 589)
LastFormat(found_formats) == found_formats[Len(found_formats)]

\* What the first loop of check_entries has gathered (lines 546-551).
ScanStart(v) ==
    [v |-> v, found_langs |-> <<>>, should_end_with_format |-> NoFormat,
     required_text_formatting |-> {}, required_variables |-> <<>>,
     good_string_entries |-> <<>>]

\* Lines 561-571: one attribute of a String element.
ScanAttribute(sc, string_entry, path, attr) ==
    IF attr[1] = lang_attrib
    THEN LET found_formats == FindFormats(get_text_from_node(string_entry))
             isRef == attr[2] = EN_US
             hasFormats == isRef /\ Len(found_formats) > 0
         IN  [sc EXCEPT
                !.required_text_formatting =
                    IF hasFormats THEN ToSet(found_formats) ELSE @,
                !.should_end_with_format =
                    IF hasFormats THEN LastFormat(found_formats) ELSE @,
                !.required_variables =
                    IF isRef THEN FindVariables(get_text_from_node(string_entry))
                    ELSE @,
                !.found_langs = Append(@, attr[2])]
    ELSE [sc EXCEPT !.v = print_error(@, Msg(MSG_UNKNOWN_ATTR, {}, <<>>,
                                             repr(attr[1]), NoFormat, None),
                                      path, string_entry.parse_position)]

RECURSIVE ScanAttributes(_, _, _, _)
ScanAttributes(sc, string_entry, path, attributes) ==
    IF attributes = <<>> THEN sc
    ELSE ScanAttributes(ScanAttribute(sc, string_entry, path, Head(attributes)),
                        string_entry, path, Tail(attributes))

\* Lines 555-571: one child node of the Entry.
ScanChild(sc, string_entry, path) ==
    IF Raising(sc.v) \/ string_entry.nodeType = "text" THEN sc
    ELSE LET t == check_unknown_tag(sc.v, string_entry, <<TagString>>, path)
         IN  IF t.known
             THEN ScanAttributes(
                      [sc EXCEPT !.v = t.v,
                                 !.good_string_entries = Append(@, string_entry)],
                      string_entry, path, string_entry.attributes)
             ELSE [sc EXCEPT !.v = t.v]

RECURSIVE ScanChildren(_, _, _)
ScanChildren(sc, childNodes, path) ==
    IF childNodes = <<>> THEN sc
    ELSE ScanChildren(ScanChild(sc, Head(childNodes), path), Tail(childNodes), path)

\* Mutant of FormatChecksApply: the Entry's requirement is not looked at.
FormatChecksApplyAlways(found_formats, should_end_with_format) ==
    Len(found_formats) > 0

\* Line 581: whether the formatting checks are made on a translation.
FormatChecksApply(found_formats, should_end_with_format) ==
    Len(found_formats) > 0 /\ should_end_with_format # NoFormat

\* Mutant of InvalidFormatting: the difference taken the other way round.
InvalidFormattingSwapped(found_formats_set, required_text_formatting) ==
    required_text_formatting \ found_formats_set

\* Line 583: found_formats_set.difference(required_text_formatting)
InvalidFormatting(found_formats_set, required_text_formatting) ==
    found_formats_set \ required_text_formatting

\* Lines 580-591: the formatting checks of one translation.
CheckFormats(v, sc, text, path1, cursor) ==
    LET found_formats == FindFormats(text)
    IN  IF FormatChecksApply(found_formats, sc.should_end_with_format)
        THEN LET found_formats_set == ToSet(found_formats)
                 invalid_text_formatting ==
                     InvalidFormatting(found_formats_set, sc.required_text_formatting)
                 missing_text_formatting ==
                     sc.required_text_formatting \ found_formats_set
                 found_format == LastFormat(found_formats)
                 v1 == IF invalid_text_formatting # {}
                       THEN print_error(v, Msg(MSG_INVALID_FORMAT,
                                invalid_text_formatting, <<>>, NoFormat, NoFormat, None),
                                path1, cursor)
                       ELSE v
                 v2 == IF missing_text_formatting # {}
                       THEN print_error(v1, Msg(MSG_MISSING_FORMAT,
                                missing_text_formatting, <<>>, NoFormat, NoFormat, None),
                                path1, cursor)
                       ELSE v1
             IN  IF found_format # sc.should_end_with_format
                 THEN print_error(v2, Msg(MSG_WRONG_END, {}, <<>>, repr(found_format),
                                          repr(sc.should_end_with_format), None),
                                  path1, cursor)
                 ELSE v2
        ELSE v

\* Lines 592-600: the placeholder checks of one translation.
CheckVariables(v, sc, text, path1, cursor) ==
    LET found_variables == FindVariables(text)
        required_variables == sc.required_variables
    IN  IF Len(found_variables) < Len(required_variables)
        THEN LET missing_variables == NotIn(required_variables, found_variables)
             IN  IF missing_variables # <<>>
                 THEN print_error(v, Msg(MSG_MISSING_VARS, {}, missing_variables,
                                         NoFormat, NoFormat, None), path1, cursor)
                 ELSE v
        ELSE IF Len(found_variables) > Len(required_variables)
        THEN LET unneeded_variables == NotIn(found_variables, required_variables)
             IN  IF unneeded_variables # <<>>
                 THEN print_error(v, Msg(MSG_TOO_MANY_VARS, {}, unneeded_variables,
                                         NoFormat, NoFormat, None), path1, cursor)
                 ELSE v
        ELSE v

\* Lines 601-607: the checks on the text without its formatting.
CheckPlainText(v, text, path1, cursor) ==
    LET text_without_formatting == StripFormats(text)
        v1 == IF HasTilde(text_without_formatting)
              THEN print_error(v, PlainMsg(MSG_TILDE), path1, cursor) ELSE v
        v2 == IF HasSpaceRun(text_without_formatting)
              THEN print_error(v1, PlainMsg(MSG_SPACES), path1, cursor) ELSE v1
    IN  IF HasWrongPunctuation(text_without_formatting)
        THEN print_error(v2, PlainMsg(MSG_PUNCTUATION), path1, cursor) ELSE v2

\* Lines 576-579: with the preview switched on, the language and the text
\* are added to the document before the text is checked.
PreviewString(v, current_lang, text) ==
    IF v.preview_formatting
    THEN add_formatted_text_to_html(AddHeading(v, "h3", current_lang), text)
    ELSE v

\* Lines 572-607: one translation of good_string_entries.
CheckString(v, sc, string_entry, path) ==
    LET text == get_text_from_node(string_entry)
        current_lang == AttrGet(string_entry.attributes, lang_attrib)
        path1 == Append(path, current_lang)
        cursor == string_entry.parse_position
    IN  CheckPlainText(
            CheckVariables(CheckFormats(PreviewString(v, current_lang, text),
                                        sc, text, path1, cursor),
                           sc, text, path1, cursor),
            text, path1, cursor)

RECURSIVE CheckStrings(_, _, _, _)
CheckStrings(v, sc, strings, path) ==
    IF strings = <<>> THEN v
    ELSE CheckStrings(CheckString(v, sc, Head(strings), path), sc,
                      Tail(strings), path)

\* Mutant of CheckId: the counter is not taken back for a duplicate.
CheckIdNoDecrement(v, e, path) ==
    LET element_found_id == AttrGet(e.attributes, AttrId)
    IN  IF element_found_id = None
        THEN print_error(v, PlainMsg(MSG_NO_ID), path, e.parse_position)
        ELSE LET v1 == IF element_found_id \in v.used_ids
                       THEN print_error(v, Msg(MSG_DUPLICATE_ID, {}, <<>>, NoFormat,
                                               NoFormat, repr(element_found_id)),
                                        path, e.parse_position)
                       ELSE v
                 v2 == [v1 EXCEPT !.used_ids = @ \cup {element_found_id}]
             IN  IF Raising(v1) THEN v1
                 ELSE IF v.preview_formatting
                 THEN AddHeading(v2, "h2", element_found_id)
                 ELSE v2

\* Lines 533-545: the Id of the Entry.
CheckId(v, e, path) ==
    LET element_found_id == AttrGet(e.attributes, AttrId)
    IN  IF element_found_id = None
        THEN print_error(v, PlainMsg(MSG_NO_ID), path, e.parse_position)
        ELSE LET v0 == IF element_found_id \in v.used_ids
                       THEN print_error(v, Msg(MSG_DUPLICATE_ID, {}, <<>>, NoFormat,
                                               NoFormat, repr(element_found_id)),
                                        path, e.parse_position)
                       ELSE v
                 v1 == IF element_found_id \in v.used_ids
                       THEN [v0 EXCEPT !.total_strings = @ - 1]
                       ELSE v0
                 v2 == [v1 EXCEPT !.used_ids = @ \cup {element_found_id}]
             IN  IF Raising(v0) THEN v0
                 ELSE IF v.preview_formatting
                 THEN AddHeading(v2, "h2", element_found_id)
                 ELSE v2

\* Lines 608-611: the translation for the selected language is missing.
CheckMissingLang(v, found_langs, path, element_location) ==
    IF Raising(v) THEN v
    ELSE IF v.show_lang # None /\ v.show_lang \notin ToSet(found_langs)
    THEN LET v1 == IF v.found_missing_lang <= v.display_limit
                   THEN print_warning(v, Msg(MSG_MISSING_LANG, {}, <<>>,
                                             repr(v.show_lang), NoFormat, None),
                                      path, element_location)
                   ELSE v
         IN  IF Raising(v1) THEN v1
             ELSE [v1 EXCEPT !.found_missing_lang = @ + 1]
    ELSE v

\* check_entries(entry, path): the class attributes after the call.
check_entries(v, e, path) ==
    LET v1 == CheckId(v, e, path)
        path2 == IF AttrGet(e.attributes, AttrId) = None THEN path
                 ELSE Append(path, entry_pretty_print(e))
        sc == ScanChildren(ScanStart(v1), e.childNodes, path2)
        v2 == CheckStrings(sc.v, sc, sc.good_string_entries, path2)
    IN  CheckMissingLang(v2, sc.found_langs, path2, e.parse_position)

----------------------------------------------------------------------------
(* Inputs                                                                  *)

\* Bounds of the model.
MaxFormatPieces == 2
MaxVariablePieces == 3
MaxFiles == 2
MaxChildren == 3

\* The pieces texts are put together from.
FormatPieces ==
    {<<"~", "r", "~">>, <<"~", "s", "~">>, <<"~", "h", "~">>, <<"~">>, <<"r">>}

VariablePieces == {<<"{", "0", "}">>, <<"{", "1", "}">>, <<"{", "2", "}">>}

\* Every text made of at most n pieces.
RECURSIVE TextsUpTo(_, _)
TextsUpTo(pieces, n) ==
    IF n = 0 THEN {<<>>}
    ELSE LET shorter == TextsUpTo(pieces, n - 1)
         IN  shorter \cup {t \o p : t \in shorter, p \in pieces}

FormatTexts == TextsUpTo(FormatPieces, MaxFormatPieces)
VariableTexts == TextsUpTo(VariablePieces, MaxVariablePieces)

\* Sample texts: a reference with two directives and translations of it,
\* a reference with two placeholders and translations of it, an unterminated
\* delimiter, spacing and punctuation, malformed placeholders.
TxtHello     == <<"H", "e", "l", "l", "o", " ", "~", "r", "~", "w", "o", "r", "l", "d", "~", "s", "~">>
TxtHalloEndR == <<"H", "a", "l", "l", "o", " ", "~", "s", "~", "W", "e", "l", "t", "~", "r", "~">>
TxtHalloNone == <<"H", "a", "l", "l", "o", " ", "W", "e", "l", "t">>
TxtHi        == <<"H", "i", " ", "{", "0", "}", ",", " ", "y", "o", "u", " ", "h", "a", "v", "e", " ", "{", "1", "}", " ", "i", "t", "e", "m", "s">>
TxtHiOne     == <<"H", "i", " ", "{", "0", "}">>
TxtHiThree   == <<"{", "0", "}", "{", "1", "}", "{", "2", "}">>
TxtScore     == <<"S", "c", "o", "r", "e", ":", " ", "1", "0", "~">>
TxtSpaces    == <<"a", " ", " ", "b">>
TxtSpacedFmt == <<"a", " ", "~", "r", "~", " ", "b">>
TxtPunct     == <<"a", " ", ".">>
TxtComma     == <<"a", "~", ",", "~", "b">>
TxtTen       == <<"{", "1", "0", "}">>
TxtBraces    == <<"{", "}", "{", "a", "}">>
TxtPlain     == <<"a", "b">>

\* A no-break space before an exclamation mark, and two carriage returns.
TxtNoBreak   == <<"a", " ", "!">>
TxtReturns   == <<"a", "\r", "\r", "b">>

SampleTexts ==
    {TxtHello, TxtHalloEndR, TxtHalloNone, TxtHi, TxtHiOne, TxtHiThree, TxtScore,
     TxtSpaces, TxtSpacedFmt, TxtPunct, TxtComma, TxtTen, TxtBraces, TxtPlain,
     TxtNoBreak, TxtReturns}

TextPairs ==
    (FormatTexts \X FormatTexts) \cup (VariableTexts \X VariableTexts)
        \cup (SampleTexts \X SampleTexts)

\* <String xml:lang="lang">text</String>, the k-th element child of its Entry;
\* without the attribute when lang is None.
StringElement(lang, text, k) ==
    Element(TagString, IF lang = None THEN <<>> ELSE <<<<lang_attrib, lang>>>>,
            <<>>, text, <<k + 2, 4>>)

\* <Entry Id="id"> with the given children; without the attribute when id is
\* None.
EntryElement(id, childNodes) ==
    Element(TagEntry, IF id = None THEN <<>> ELSE <<<<AttrId, id>>>>, childNodes,
            <<>>, <<2, 2>>)

Langs == {EN_US, DE_DE}

\* The Ids of the Entries: two plain ones, the text "None", and one with a
\* single quote.
IdX == <<"X">>
IdY == <<"Y">>
IdNone == <<"N", "o", "n", "e">>
IdQuote == <<"a", "'", "b">>

\* Entries out of the ordinary: an Id or a language that reads None, an Id
\* with a quote, no Id, a String without xml:lang with and without a finding,
\* and a processing instruction between the translations.
IrregularEntries ==
    {EntryElement(IdNone, <<StringElement(EN_US, TxtPlain, 1)>>),
     EntryElement(IdQuote, <<StringElement(EN_US, TxtScore, 1)>>),
     EntryElement(None, <<StringElement(DE_DE, TxtScore, 1)>>),
     EntryElement(IdX, <<StringElement(<<"N", "o", "n", "e">>, TxtScore, 1)>>),
     EntryElement(IdX, <<StringElement(None, TxtPlain, 1)>>),
     EntryElement(IdX, <<StringElement(EN_US, TxtScore, 1),
                         StringElement(None, TxtScore, 2),
                         StringElement(DE_DE, TxtScore, 3)>>),
     EntryElement(IdX, <<StringElement(EN_US, TxtHello, 1), ProcessingInstruction,
                         StringElement(DE_DE, TxtHalloEndR, 2)>>)}

\* The Entries a single call of check_entries is tried on: two translations,
\* in either order, with or without a reference translation, and the
\* Entries out of the ordinary.
EntryInputs ==
    {EntryElement(IdX, <<StringElement(l1, tp[1], 1), TextNode,
                         StringElement(l2, tp[2], 2)>>) :
        l1 \in Langs, l2 \in Langs, tp \in TextPairs}
      \cup IrregularEntries

----------------------------------------------------------------------------
(* One call of check_entries, from the class attributes as declared        *)

RootTag == <<"E", "n", "t", "r", "i", "e", "s">>

TestPath == <<<<"f", "i", "l", "e", ".", "x", "m", "l">>, RootTag>>

InitClass ==
    /\ parsing = FALSE
    /\ used_ids = {}
    /\ errors = 0
    /\ display_limit = 10
    /\ show_lang = None
    /\ found_missing_lang = 0
    /\ total_strings = 0
    /\ output = <<>>
    /\ file_no = 0
    /\ children_left = 0
    /\ children_seen = 0
    /\ diags = <<>>
    /\ history = <<>>
    /\ exit_status = None
    /\ preview_formatting = FALSE
    /\ body = <<>>
    /\ raised = NoException

\* No call of add_formatted_text_to_html is under way.
NoPreview ==
    /\ raw_text = <<>>
    /\ rewritten = <<>>
    /\ text_fragments = <<>>
    /\ matchedActions = <<>>
    /\ loop_i = 0
    /\ bolded = FALSE
    /\ italic = FALSE
    /\ color = ""
    /\ condensed = 0
    /\ new_line = FALSE
    /\ styles = <<>>

InitEntry ==
    /\ InitClass
    /\ NoPreview
    /\ pc = "call"
    /\ entry \in EntryInputs

\* The attributes of V taken over by the variables; the diagnostics of the step.
Assign(v) ==
    /\ used_ids' = v.used_ids
    /\ errors' = v.errors
    /\ display_limit' = v.display_limit
    /\ show_lang' = v.show_lang
    /\ found_missing_lang' = v.found_missing_lang
    /\ total_strings' = v.total_strings
    /\ output' = v.output
    /\ diags' = SubSeq(v.output, Len(output) + 1, Len(v.output))
    /\ preview_formatting' = v.preview_formatting
    /\ body' = v.body
    /\ raised' = v.raised

\* check_entries is called and returns, or an exception leaves it.
CallCheckEntries ==
    /\ pc = "call"
    /\ Assign(check_entries(V, entry, TestPath))
    /\ pc' = IF raised' = NoException THEN "returned" ELSE "raised"
    /\ UNCHANGED <<parsing, file_no, children_left, children_seen, entry, history,
                   exit_status>>
    /\ UNCHANGED lvars

NextEntry == CallCheckEntries

SpecEntry == InitEntry /\ [][NextEntry]_vars

----------------------------------------------------------------------------
(* A run of the script: __main__ and check_xml_files                       *)

\* The name of the n-th file of index.json: "file1.xml", "file2.xml", ...
FileName(n) ==
    <<"f", "i", "l", "e">> \o <<(<<"0", "1", "2", "3", "4", "5", "6", "7", "8", "9">>)[n + 1]>>
        \o <<".", "x", "m", "l">>

\* A translation with a colour directive of the ~HC_...~ form.
TxtShortColour == <<"~", "H", "C", "_", "1", "~", "a", "b">>

\* The lists of String children the Entries of a run with the Id "X" are
\* given.
RunStrings ==
    {<<StringElement(EN_US, TxtPlain, 1)>>,
     <<StringElement(EN_US, TxtPlain, 1), TextNode,
       StringElement(DE_DE, TxtScore, 2)>>,
     <<Element(<<"T", "e", "x", "t">>, <<<<lang_attrib, EN_US>>>>, <<>>, TxtPlain, <<3, 4>>),
       Element(TagString, <<<<lang_attrib, DE_DE>>, <<<<"n", "o", "t", "e">>, <<"x">>>>>>, <<>>,
               TxtShortColour, <<4, 4>>)>>,
     <<StringElement(None, TxtScore, 1)>>}

\* The child nodes of a root element: text between the elements, a
\* processing instruction, an element with another tag, an Entry without Id,
\* and Entries with one of two Ids.
RunChildren ==
    {TextNode, ProcessingInstruction,
     Element(<<"G", "r", "o", "u", "p">>, <<>>, <<>>, <<>>, <<2, 2>>),
     EntryElement(None, <<StringElement(EN_US, TxtPlain, 1)>>),
     EntryElement(IdY, <<StringElement(EN_US, TxtSpaces, 1), TextNode,
                         StringElement(DE_DE, TxtPunct, 2)>>)}
        \cup {EntryElement(IdX, strings) : strings \in RunStrings}

\* The arguments of the runs whose command line parse_args accepts:
\* --show_lang, --display_limit and --preview_formatting.
RunArgs == {<<None, 10, FALSE>>, <<DE_DE, 0, FALSE>>, <<None, 10, TRUE>>}

\* The exceptions of lines 628-629, none of which is caught.  index.json
\* cannot be opened: it is not there, it is a directory, a component of the
\* path it links to is no directory, it may not be read, its name cannot be
\* resolved (a symbolic link to itself).  Or it is not UTF-8, is no JSON, or
\* is JSON that json.load gives up on (nested too deeply: RecursionError,
\* an integer of too many digits: ValueError).
IndexExceptions ==
    {"FileNotFoundError", "IsADirectoryError", "NotADirectoryError", "PermissionError",
     "OSError", "UnicodeDecodeError", "JSONDecodeError", "RecursionError", "ValueError"}

\* The exceptions of opening a file of the list (line 513) that lines
\* 523-528 do not catch: the name is a directory's, a component of the path
\* is no directory, the file may not be read, the name cannot be resolved (a
\* symbolic link to itself, a name that is too long), or it is no file name
\* (ValueError for a NUL character, UnicodeEncodeError for a surrogate).
OpenFileExceptions ==
    {"IsADirectoryError", "NotADirectoryError", "PermissionError", "OSError", "ValueError",
     "UnicodeEncodeError"}

\* The exceptions of open("preview.html", "w") (line 635), none of which is
\* caught: preview.html is a symbolic link into a directory that is not
\* there, is a directory, links to a path with a component that is no
\* directory, may not be written, or cannot be resolved or written to (a
\* symbolic link to itself, no space left).
WritePreviewExceptions ==
    {"FileNotFoundError", "IsADirectoryError", "NotADirectoryError", "PermissionError",
     "OSError"}

\* The messages of the parser for a file that is not well-formed.
ERR_MISMATCHED_TAG == <<"m", "i", "s", "m", "a", "t", "c", "h", "e", "d", " ", "t", "a", "g">>
ERR_NO_ELEMENT     == <<"n", "o", " ", "e", "l", "e", "m", "e", "n", "t", " ", "f", "o", "u", "n", "d">>

\* The files of the runs that are not well-formed: the message of the
\* SAXParseException, the line and the column the parser stopped at
\* (err.getLineNumber(), err.getColumnNumber()), and whether the error was
\* met while the text was fed to the parser or when the input was closed.
\*   <Entries><Entry Id="Z"></Entries> on one line;
\*   a declaration, <Entries> and <Entry Id="X"></Wrong> on three lines;
\*   a file of blank characters and one line end.
ParseErrors ==
    {[message |-> ERR_MISMATCHED_TAG, cursor |-> <<1, 25>>, while_feeding |-> TRUE],
     [message |-> ERR_MISMATCHED_TAG, cursor |-> <<3, 18>>, while_feeding |-> TRUE],
     [message |-> ERR_NO_ELEMENT, cursor |-> <<2, 0>>, while_feeding |-> FALSE]}

Init ==
    /\ InitClass
    /\ NoPreview
    /\ pc = "main"
    /\ entry = NoNode

\* __main__, lines 617-627.  parse_args (line 621) ends the process itself
\* for a command line it does not accept (an option or a value that is not
\* known, a limit that is no integer: a usage message, status 2) and for
\* --help (status 0); nothing is checked.  Otherwise the arguments are taken
\* over; the preview is switched on when it is asked for and dominate could
\* be imported.
ParseArgs ==
    /\ pc = "main"
    /\ \/ /\ pc' = "index"
          /\ \E args \in RunArgs, DOMINATE_INSTALLED \in BOOLEAN :
                /\ show_lang' = args[1]
                /\ display_limit' = args[2]
                /\ preview_formatting' = (args[3] /\ DOMINATE_INSTALLED)
          /\ UNCHANGED exit_status
       \/ /\ pc' = "done"
          /\ exit_status' \in {0, 2}
          /\ UNCHANGED <<show_lang, display_limit, preview_formatting>>
    /\ UNCHANGED <<parsing, used_ids, errors, found_missing_lang, total_strings, output,
                   file_no, children_left, children_seen, entry, diags, history>>
    /\ UNCHANGED pvars

\* __main__, lines 628-629: the list of files is read from index.json.
LoadIndex ==
    /\ pc = "index"
    /\ pc' = "files"
    /\ UNCHANGED <<cvars, pvars>>

\* __main__, lines 628-629: index.json cannot be opened or read as JSON (one
\* of IndexExceptions); nothing catches the exception, the process ends with
\* a traceback and status 1.
IndexFails ==
    /\ pc = "index"
    /\ pc' = "done"
    /\ raised' \in IndexExceptions
    /\ exit_status' = 1
    /\ UNCHANGED <<parsing, used_ids, errors, display_limit, show_lang,
                   found_missing_lang, total_strings, output, file_no, children_left,
                   children_seen, entry, diags, history, preview_formatting>>
    /\ UNCHANGED <<lvars, body>>

\* check_xml_files, line 508: the value read from index.json is not
\* iterable (a number, true, false or null); the process ends with a
\* traceback and status 1.
FilesNotIterable ==
    /\ pc = "files"
    /\ file_no = 0
    /\ pc' = "done"
    /\ raised' = "TypeError"
    /\ exit_status' = 1
    /\ UNCHANGED <<parsing, used_ids, errors, display_limit, show_lang,
                   found_missing_lang, total_strings, output, file_no, children_left,
                   children_seen, entry, diags, history, preview_formatting>>
    /\ UNCHANGED <<lvars, body>>

\* check_xml_files, lines 509-511: the name of the file is added to the
\* document before the file is opened.  An element of the list that is no
\* string (None stands for it) is given to the tag as it is.
BeginFile(v, file) ==
    IF v.preview_formatting THEN AddHeading(v, "h1", file) ELSE v

\* check_xml_files, lines 523-524: the next file does not exist.
FileNotFound ==
    /\ pc = "files"
    /\ file_no < MaxFiles
    /\ file_no' = file_no + 1
    /\ Assign(print_error(BeginFile(V, FileName(file_no + 1)),
                          Msg(MSG_INVALID_FILE, {}, <<>>, repr(FileName(file_no + 1)),
                              NoFormat, None),
                          <<FileName(file_no + 1)>>, NoCursor))
    /\ entry' = NoNode
    /\ UNCHANGED <<parsing, pc, children_left, children_seen, history, exit_status>>
    /\ UNCHANGED lvars

\* check_xml_files, lines 525-526: the next file is not well-formed; the
\* error is printed with the message of the parser and the position it
\* stopped at.  The parser is the same for every file.  An error met while
\* the text of the file is fed to it (a mismatched tag) leaves it in the
\* middle of its parse; an error met when the input is closed (no element
\* found) leaves it reset.
FileParseError ==
    /\ pc = "files"
    /\ file_no < MaxFiles
    /\ ~parsing
    /\ file_no' = file_no + 1
    /\ \E err \in ParseErrors :
          /\ parsing' = err.while_feeding
          /\ Assign(print_error(BeginFile(V, FileName(file_no + 1)),
                                Msg(MSG_INVALID_FILE, {}, <<>>, err.message, NoFormat, None),
                                <<FileName(file_no + 1)>>, err.cursor))
    /\ entry' = NoNode
    /\ UNCHANGED <<pc, children_left, children_seen, history, exit_status>>
    /\ UNCHANGED lvars

\* check_xml_files, lines 527-528: a parser left in the middle of a parse
\* refuses the next file that can be opened, and the next element of the
\* list that is no string (SAXNotSupportedException); it is passed over
\* without a diagnostic.
FileNotSupported ==
    /\ pc = "files"
    /\ file_no < MaxFiles
    /\ parsing
    /\ file_no' = file_no + 1
    /\ \E file \in {FileName(file_no + 1), None}, refuses_none \in BOOLEAN :
          LET v == BeginFile([V EXCEPT !.refuses_none = refuses_none], file)
          IN  /\ ~Raising(v)
              /\ Assign(v)
    /\ entry' = NoNode
    /\ UNCHANGED <<parsing, pc, children_left, children_seen, history, exit_status>>
    /\ UNCHANGED lvars

\* check_xml_files, lines 511-513: an exception that lines 523-528 do not
\* catch; the process ends with a traceback and status 1.  The file cannot
\* be opened (one of OpenFileExceptions), whatever state the parser is in.
\* When the parser takes the file, an empty file raises TypeError before
\* anything is fed; a file that declares an encoding Python does not know
\* (LookupError), that the parser does not take (ValueError), or whose
\* codec fails on the bytes the parser hands it (UnicodeError for idna and
\* undefined, UnicodeDecodeError for punycode) raises while it is fed and
\* leaves the parser in the middle of its parse; an element of the list
\* that is no string raises AttributeError (it has no method read), or
\* ValueError at line 511 when the tag refuses it.
FileRaises ==
    /\ pc = "files"
    /\ file_no < MaxFiles
    /\ file_no' = file_no + 1
    /\ \/ /\ \E exception \in OpenFileExceptions :
                Assign(Raise(BeginFile(V, FileName(file_no + 1)), exception))
          /\ UNCHANGED parsing
       \/ /\ ~parsing
          /\ Assign(Raise(BeginFile(V, FileName(file_no + 1)), "TypeError"))
          /\ UNCHANGED parsing
       \/ /\ ~parsing
          /\ \E exception \in {"LookupError", "ValueError", "UnicodeError",
                                "UnicodeDecodeError"} :
                Assign(Raise(BeginFile(V, FileName(file_no + 1)), exception))
          /\ parsing' = TRUE
       \/ /\ \E refuses_none \in BOOLEAN :
                LET v == BeginFile([V EXCEPT !.refuses_none = refuses_none], None)
                IN  /\ Raising(v) \/ ~parsing
                    /\ Assign(IF Raising(v) THEN v ELSE Raise(v, "AttributeError"))
          /\ UNCHANGED parsing
    /\ pc' = "done"
    /\ exit_status' = 1
    /\ entry' = NoNode
    /\ UNCHANGED <<children_left, children_seen, history>>
    /\ UNCHANGED lvars

\* check_xml_files, lines 513-515: the next file is parsed; its root holds n
\* child nodes.
OpenFile ==
    /\ pc = "files"
    /\ file_no < MaxFiles
    /\ ~parsing
    /\ file_no' = file_no + 1
    /\ pc' = "in_file"
    /\ children_left' \in 0..(MaxChildren - children_seen)
    /\ Assign(BeginFile(V, FileName(file_no + 1)))
    /\ entry' = NoNode
    /\ UNCHANGED <<parsing, children_seen, history, exit_status>>
    /\ UNCHANGED lvars

\* check_xml_files, lines 516-522: the class attributes after one child node of
\* the root.
CheckRootChild(v, child, path) ==
    IF child.nodeType = "text" THEN v
    ELSE LET t == check_unknown_tag(v, child, <<TagEntry>>, path)
         IN  IF t.known
             THEN LET v1 == check_entries(t.v, child, path)
                  IN  IF Raising(v1) THEN v1
                      ELSE [v1 EXCEPT !.total_strings = @ + 1]
             ELSE t.v

\* One child node of the root is handled.  An exception that leaves
\* check_unknown_tag or check_entries is caught nowhere: the process ends
\* with a traceback and status 1.
CheckChild ==
    /\ pc = "in_file"
    /\ children_left > 0
    /\ children_left' = children_left - 1
    /\ children_seen' = children_seen + 1
    /\ \E child \in RunChildren,
          refuses_none \in (IF preview_formatting THEN BOOLEAN ELSE {TRUE}) :
          /\ entry' = child
          /\ Assign(CheckRootChild([V EXCEPT !.refuses_none = refuses_none], child,
                                   <<FileName(file_no), RootTag>>))
          /\ history' = IF child.nodeType = "element" /\ child.tagName = TagEntry
                        THEN Append(history,
                                    <<file_no, AttrGet(child.attributes, AttrId)>>)
                        ELSE history
    /\ pc' = IF raised' = NoException THEN pc ELSE "done"
    /\ exit_status' = IF raised' = NoException THEN exit_status ELSE 1
    /\ UNCHANGED <<parsing, file_no>>
    /\ UNCHANGED lvars

\* check_xml_files, line 516: the root has no more child nodes.
EndFile ==
    /\ pc = "in_file"
    /\ children_left = 0
    /\ pc' = "files"
    /\ entry' = NoNode
    /\ diags' = <<>>
    /\ UNCHANGED <<parsing, used_ids, errors, display_limit, show_lang, found_missing_lang,
                   total_strings, output, file_no, children_left, children_seen,
                   history, exit_status, preview_formatting>>
    /\ UNCHANGED pvars

\* The status __main__ ends with (lines 637-641).
ExitStatus(v) == IF v.errors > 0 THEN 1 ELSE 0

\* __main__, lines 631-643: every file of the list has been taken.
Finish ==
    /\ pc = "files"
    /\ pc' = "done"
    /\ exit_status' = ExitStatus(V)
    /\ UNCHANGED <<parsing, used_ids, errors, display_limit, show_lang, found_missing_lang,
                   total_strings, output, file_no, children_left, children_seen,
                   entry, diags, history, preview_formatting>>
    /\ UNCHANGED pvars

\* __main__, lines 634-635: preview.html cannot be opened for writing or
\* written (one of WritePreviewExceptions); the process ends with a
\* traceback and status 1, whatever was counted.
WritePreviewFails ==
    /\ pc = "files"
    /\ preview_formatting
    /\ pc' = "done"
    /\ raised' \in WritePreviewExceptions
    /\ exit_status' = 1
    /\ UNCHANGED <<parsing, used_ids, errors, display_limit, show_lang,
                   found_missing_lang, total_strings, output, file_no, children_left,
                   children_seen, entry, diags, history, preview_formatting>>
    /\ UNCHANGED <<lvars, body>>

Next ==
    \/ ParseArgs
    \/ LoadIndex
    \/ IndexFails
    \/ FilesNotIterable
    \/ FileNotFound
    \/ FileParseError
    \/ FileNotSupported
    \/ FileRaises
    \/ OpenFile
    \/ CheckChild
    \/ EndFile
    \/ WritePreviewFails
    \/ Finish

Spec == Init /\ [][Next]_vars

----------------------------------------------------------------------------
(* Properties of one call of check_entries (SpecEntry)                     *)

\* The String elements of an Entry.
Translations(e) ==
    SelectSeq(e.childNodes,
              LAMBDA n : n.nodeType = "element" /\ n.tagName = TagString)

Lang(string_entry) == AttrGet(string_entry.attributes, lang_attrib)

\* The positions among the translations of the reference (en-US) translations.
ReferenceAt(e) ==
    {i \in 1..Len(Translations(e)) : Lang(Translations(e)[i]) = EN_US}

\* The Entry has exactly one reference translation: the reference translation.
HasOneReference(e) == Cardinality(ReferenceAt(e)) = 1

Reference(e) == Translations(e)[CHOOSE i \in ReferenceAt(e) : TRUE]

\* The short-format directives of a translation, in order.
Directives(string_entry) == FindFormats(string_entry.text)

\* The Entry has a formatting requirement: its reference translation holds a
\* short-format directive.
HasRequirement(e) == HasOneReference(e) /\ Directives(Reference(e)) # <<>>

RequiredSet(e) == ToSet(Directives(Reference(e)))

Terminal(e) ==
    LET d == Directives(Reference(e)) IN d[Len(d)]

\* The diagnostics of the last call that were printed for a translation with
\* the given message text, as positions in diags.
Reported(string_entry, text) ==
    {i \in 1..Len(diags) :
        /\ diags[i].msg.text = text
        /\ diags[i].cursor = string_entry.parse_position
        /\ diags[i].location[Len(diags[i].location)] = Lang(string_entry)}

Called == pc = "returned"

\* Entry with reference text ref and one translation text tr, in this order.
IsRefAndTranslation(e, ref, tr) ==
    /\ Len(Translations(e)) = 2
    /\ Lang(Translations(e)[1]) = EN_US /\ Translations(e)[1].text = ref
    /\ Lang(Translations(e)[2]) = DE_DE /\ Translations(e)[2].text = tr

\* C1: when no reference translation of the Entry holds a short-format
\* directive (or the Entry has no reference translation), check_entries prints
\* no invalid-directive, missing-directive or wrong-terminal diagnostic for any
\* translation, whatever directives the translations hold.
C1_NoRequirementNoFormatDiagnostics ==
    (Called /\ \A i \in ReferenceAt(entry) :
                   Directives(Translations(entry)[i]) = <<>>)
    => \A j \in 1..Len(diags) :
           diags[j].msg.text \notin
               {MSG_INVALID_FORMAT, MSG_MISSING_FORMAT, MSG_WRONG_END}

\* C1 witness: a reference without directives, a translation with two, and
\* the call has returned.
C1_Witness ==
    /\ Called
    /\ IsRefAndTranslation(entry, <<"r">>, <<"~", "r", "~", "~", "s", "~">>)

\* C2: for an Entry with a formatting requirement the expected terminal
\* directive is the last directive of the reference translation: a translation
\* whose last directive differs is reported once, with the found and the
\* expected literal; a translation whose last directive is the same is not.
C2_TerminalDirective ==
    (Called /\ HasRequirement(entry))
    => \A k \in 1..Len(Translations(entry)) :
           LET s == Translations(entry)[k]
               d == Directives(s)
               wrong == Reported(s, MSG_WRONG_END)
           IN  d # <<>> =>
                 IF d[Len(d)] # Terminal(entry)
                 THEN /\ Cardinality(wrong) = 1
                      /\ \A i \in wrong :
                            /\ diags[i].msg.found = repr(d[Len(d)])
                            /\ diags[i].msg.expected = repr(Terminal(entry))
                            /\ diags[i].severity = "[!]"
                 ELSE wrong = {}

\* C2 witness: reference "Hello ~r~world~s~", a translation that ends in ~r~,
\* and the diagnostic that expects ~s~.
C2_Witness ==
    /\ Called
    /\ IsRefAndTranslation(entry, TxtHello, TxtHalloEndR)
    /\ RequiredSet(entry) = {<<"~", "r", "~">>, <<"~", "s", "~">>}
    /\ \E i \in Reported(Translations(entry)[2], MSG_WRONG_END) :
          /\ diags[i].msg.found = <<"'", "~", "r", "~", "'">>
          /\ diags[i].msg.expected = <<"'", "~", "s", "~", "'">>

\* C3 (as claimed): for an Entry with a formatting requirement, every
\* translation that lacks a literal of the required set is reported with a
\* missing-directive error, also a translation without any directive.
C3_MissingDirectiveReported ==
    (Called /\ HasRequirement(entry))
    => \A k \in 1..Len(Translations(entry)) :
           LET s == Translations(entry)[k]
           IN  RequiredSet(entry) \ ToSet(Directives(s)) # {}
               => \E i \in Reported(s, MSG_MISSING_FORMAT) :
                      diags[i].msg.names = RequiredSet(entry) \ ToSet(Directives(s))

\* C4: for an Entry with a formatting requirement, a translation that uses
\* literals outside the required set gets exactly one invalid-directive error,
\* which names all of them; a translation that uses none gets no such error.
C4_InvalidDirectiveOnce ==
    (Called /\ HasRequirement(entry))
    => \A k \in 1..Len(Translations(entry)) :
           LET s == Translations(entry)[k]
               invalid == ToSet(Directives(s)) \ RequiredSet(entry)
               found == Reported(s, MSG_INVALID_FORMAT)
           IN  IF invalid # {}
               THEN /\ Cardinality(found) = 1
                    /\ \A i \in found : /\ diags[i].msg.names = invalid
                                        /\ diags[i].severity = "[!]"
               ELSE found = {}

\* C4 witness: a translation with two literals the reference does not use,
\* named by one error.
C4_Witness ==
    /\ Called
    /\ IsRefAndTranslation(entry, <<"~", "r", "~">>,
                           <<"~", "s", "~", "~", "h", "~">>)
    /\ \E i \in Reported(Translations(entry)[2], MSG_INVALID_FORMAT) :
          Cardinality(diags[i].msg.names) = 2

\* The placeholders of a translation, in order, duplicates kept.
Placeholders(string_entry) == FindVariables(string_entry.text)

\* The required variable list of an Entry with at most one reference
\* translation: the placeholders of the reference, none without a reference.
RequiredVariables(e) ==
    IF ReferenceAt(e) = {} THEN <<>> ELSE Placeholders(Reference(e))

\* The elements of list s that do not occur in list other, in order.
Without(s, other) == SelectSeq(s, LAMBDA x : \A i \in 1..Len(other) : other[i] # x)

\* C5: the required variable list is the list of the {N} occurrences of the
\* reference translation, in order and with duplicates.  A translation with
\* fewer occurrences is reported with the required literals it does not hold
\* as missing; one with more occurrences is reported with the literals it holds
\* that are not required as unneeded; nothing else is reported about
\* placeholders.
C5_PlaceholderCheck ==
    (Called /\ Cardinality(ReferenceAt(entry)) <= 1)
    => \A k \in 1..Len(Translations(entry)) :
           LET s == Translations(entry)[k]
               found == Placeholders(s)
               required == RequiredVariables(entry)
               missing == Without(required, found)
               unneeded == Without(found, required)
               m == Reported(s, MSG_MISSING_VARS)
               u == Reported(s, MSG_TOO_MANY_VARS)
           IN  /\ (Len(found) < Len(required) /\ missing # <<>>)
                    => /\ Cardinality(m) = 1
                       /\ \A i \in m : /\ diags[i].msg.variables = missing
                                       /\ diags[i].severity = "[!]"
               /\ (Len(found) > Len(required) /\ unneeded # <<>>)
                    => /\ Cardinality(u) = 1
                       /\ \A i \in u : /\ diags[i].msg.variables = unneeded
                                       /\ diags[i].severity = "[!]"
               /\ (Len(found) >= Len(required) \/ missing = <<>>) => m = {}
               /\ (Len(found) <= Len(required) \/ unneeded = <<>>) => u = {}

\* C5 witness: reference "Hi {0}, you have {1} items" and the translation
\* "{0}{1}{2}", reported with the unneeded {2}.
C5_Witness ==
    /\ Called
    /\ IsRefAndTranslation(entry, TxtHi, TxtHiThree)
    /\ RequiredVariables(entry) = <<<<"{", "0", "}">>, <<"{", "1", "}">>>>
    /\ \E i \in Reported(Translations(entry)[2], MSG_TOO_MANY_VARS) :
          diags[i].msg.variables = <<<<"{", "2", "}">>>>

\* The literals that may follow themselves (the toggle and newline forms).
DuplicateExempt == {<<"~", "h", "~">>, <<"~", "n", "~">>}

\* The message texts of the checks of a translation other than the
\* duplicate check.
OtherCheckTexts ==
    {MSG_UNKNOWN_ATTR, MSG_INVALID_FORMAT, MSG_MISSING_FORMAT, MSG_WRONG_END,
     MSG_MISSING_VARS, MSG_TOO_MANY_VARS, MSG_TILDE, MSG_SPACES, MSG_PUNCTUATION}

\* C6 (as claimed): for an Entry with a formatting requirement, a translation
\* in which a directive is followed by the same directive is reported with a
\* duplicate error, unless the literal is exempt ("~r~~r~" is, "~h~~h~" not).
C6_DuplicateDirectiveReported ==
    (Called /\ HasRequirement(entry))
    => \A k \in 1..Len(Translations(entry)) :
           LET s == Translations(entry)[k]
               d == Directives(s)
           IN  (\E i \in 1..(Len(d) - 1) : d[i] = d[i + 1] /\ d[i] \notin DuplicateExempt)
               => \E j \in 1..Len(diags) :
                      /\ diags[j].cursor = s.parse_position
                      /\ diags[j].msg.text \notin OtherCheckTexts

\* The offsets (from 0) of the tildes of text t that are part of no directive
\* found in it.
RECURSIVE StrayOffsetsFrom(_, _)
StrayOffsetsFrom(t, i) ==
    IF i > Len(t) THEN {}
    ELSE IF FormatAt(t, i) THEN StrayOffsetsFrom(t, i + 3)
         ELSE (IF t[i] = "~" THEN {i - 1} ELSE {}) \cup StrayOffsetsFrom(t, i + 1)

StrayOffsets(t) == StrayOffsetsFrom(t, 1)

\* C7 (as claimed): a translation with a tilde left after its directives are
\* removed is reported with an invalid-marker error, with or without a
\* formatting requirement, at the offset of that tilde in the text (counted
\* from the position of the translation); a text whose every tilde is part of
\* a directive is not reported.
C7_StrayMarkerAtOffset ==
    Called
    => \A k \in 1..Len(Translations(entry)) :
           LET s == Translations(entry)[k]
               stray == StrayOffsets(s.text)
               found == Reported(s, MSG_TILDE)
           IN  IF stray # {}
               THEN \E i \in found : \E o \in stray :
                        diags[i].cursor = <<s.parse_position[1],
                                            s.parse_position[2] + o>>
               ELSE found = {}

----------------------------------------------------------------------------
(* Properties of a run (Spec)                                              *)

\* The printed diagnostics with the given severity marker, as positions.
Printed(severity) == {i \in 1..Len(output) : output[i].severity = severity}

\* C8 (as claimed): the error counter starts at 0 and is at any time the
\* number of error diagnostics printed so far, so that a warning does not
\* change it; it never decreases; and the exit status is non-zero exactly when
\* an error diagnostic was printed during the run.
C8_ErrorCounterDecidesExit ==
    /\ [](/\ errors = Cardinality(Printed("[!]"))
          /\ pc = "main" => errors = 0
          /\ pc = "done" => (exit_status # 0 <=> Printed("[!]") # {}))
    /\ [][errors' >= errors]_vars

\* C9 (as claimed): a run whose only findings are spacing and punctuation
\* findings prints them as warnings, records no error and exits with 0.
C9_SpacingAndPunctuationAreWarnings ==
    (/\ pc = "done"
     /\ output # <<>>
     /\ \A i \in 1..Len(output) :
           output[i].msg.text \in {MSG_SPACES, MSG_PUNCTUATION})
    => /\ errors = 0
       /\ exit_status = 0
       /\ \A i \in 1..Len(output) : output[i].severity = "[*]"

\* The Ids of the Entry elements processed so far, in order.
ProcessedIds == [i \in 1..Len(history) |-> history[i][2]]

\* The number of Entry elements processed so far that carry the Id.
Occurrences(id) == Cardinality({i \in 1..Len(history) : history[i][2] = id})

\* The duplicate-id errors printed so far for the Id, as positions.
DuplicateErrors(id) ==
    {i \in 1..Len(output) :
        /\ output[i].msg.text = MSG_DUPLICATE_ID
        /\ output[i].msg.id = repr(id)
        /\ output[i].severity = "[!]"}

AllDuplicateErrors ==
    {i \in 1..Len(output) : output[i].msg.text = MSG_DUPLICATE_ID}

\* C10: over the whole run and across files, every Entry that carries an Id
\* after the Id's first occurrence produces exactly one duplicate-id error;
\* as long as no exception has ended the run, the total-string counter is the
\* number of processed Entry elements minus the number of duplicate-id errors,
\* and the translations of a duplicate Entry are validated like any other (a
\* tilde left outside a directive is reported).
C10_DuplicateIds ==
    /\ \A id \in ToSet(ProcessedIds) \ {None} :
          Cardinality(DuplicateErrors(id)) = Occurrences(id) - 1
    /\ Cardinality(AllDuplicateErrors)
          = Len(history) - Occurrences(None)
              - Cardinality(ToSet(ProcessedIds) \ {None})
    /\ raised = NoException
        => total_strings = Len(history) - Cardinality(AllDuplicateErrors)
    /\ (raised = NoException /\ entry.nodeType = "element" /\ entry.tagName = TagEntry)
        => \A k \in 1..Len(Translations(entry)) :
               LET s == Translations(entry)[k]
               IN  StrayOffsets(s.text) # {}
                   => \E i \in 1..Len(diags) :
                          /\ diags[i].msg.text = MSG_TILDE
                          /\ diags[i].cursor = s.parse_position

\* C10 witness: the Id "X" in the first file and again at the end of the
\* second, one duplicate-id error, the counter at 1, and the duplicate's
\* translation reported for its stray tilde.
C10_Witness ==
    /\ pc = "in_file"
    /\ children_left = 0
    /\ history = <<<<1, IdX>>, <<2, IdX>>>>
    /\ raised = NoException
    /\ Cardinality(AllDuplicateErrors) = 1
    /\ total_strings = 1
    /\ \E i \in 1..Len(diags) : diags[i].msg.text = MSG_TILDE

\* The missing-translation warnings printed so far, as positions.
MissingLangWarnings ==
    {i \in 1..Len(output) : output[i].msg.text = MSG_MISSING_LANG}

\* The node is an Entry element without a translation for the language.
LacksLang(node, lang) ==
    /\ node.nodeType = "element"
    /\ node.tagName = TagEntry
    /\ lang # None
    /\ \A k \in 1..Len(Translations(node)) : Lang(Translations(node)[k]) # lang

\* C11 (as claimed): every Entry processed without a translation for the
\* selected language adds exactly one to the missing-translation counter, no
\* other step changes the counter, and the number of missing-translation
\* warnings printed in a run never exceeds the display limit.
C11_MissingLangCounterAndLimit ==
    /\ [](Cardinality(MissingLangWarnings) <= display_limit)
    /\ [][found_missing_lang'
            = found_missing_lang
                + (IF children_seen' # children_seen /\ LacksLang(entry', show_lang)
                   THEN 1 ELSE 0)]_vars

\* C12 (as claimed): every translation whose text is empty is reported with
\* an error of its own, whatever the Entry requires.
C12_EmptyTextReported ==
    Called
    => \A k \in 1..Len(Translations(entry)) :
           LET s == Translations(entry)[k]
           IN  s.text = <<>>
               => \E j \in 1..Len(diags) :
                      /\ diags[j].severity = "[!]"
                      /\ diags[j].cursor = s.parse_position
                      /\ diags[j].msg.text \notin OtherCheckTexts

\* C15 (as claimed): the step that takes the next file of the list either
\* goes on to the file's child nodes, or fails with exactly one error
\* diagnostic for that file and leaves the used ids and the counters other
\* than the error count as they were; a file that exists and is well-formed
\* is never passed over, whatever happened to the files before it.
C15_FileFailureIsolated ==
    [][file_no' = file_no + 1
        => \/ pc' = "in_file" /\ output' = output
           \/ /\ pc' = "files"
              /\ Len(output') = Len(output) + 1
              /\ output'[Len(output')].severity = "[!]"
              /\ output'[Len(output')].msg.text = MSG_INVALID_FILE
              /\ output'[Len(output')].location = <<FileName(file_no')>>
              /\ errors' = errors + 1
              /\ UNCHANGED <<used_ids, total_strings, found_missing_lang, history>>]_vars

----------------------------------------------------------------------------
(* The preview of one text, step by step                                   *)

\* Bounds of the preview inputs.
MaxPreviewPieces == 3

\* The pieces the texts to preview are put together from.
PreviewPieces ==
    {<<"~", "h", "~">>, <<"~", "n", "~">>,
     <<"~", "i", "t", "a", "l", "i", "c", "~">>, <<"(", "C", ")">>, <<"(", "/", "C", ")">>,
     <<"~", "r", "~">>, <<"~", "g", "~">>, <<"r", "~">>, <<"a">>,
     <<"~", "H", "U", "D", "_", "C", "O", "L", "O", "U", "R", "_", "X", "~">>,
     <<"~", "H", "C", "_", "1", "~">>,
     <<"~", "C", "C", "_", "1", "_", "2", "_", "3", "~">>}

\* "~h~Bold~h~Normal", a text with the long form of the bold directive, and
\* a text with a line end inside a colour directive.
TxtBoldNormal ==
    <<"~", "h", "~", "B", "o", "l", "d", "~", "h", "~", "N", "o", "r", "m", "a", "l">>
TxtBoldLong ==
    <<"~", "b", "o", "l", "d", "~", "a", "~", "b", "o", "l", "d", "~", "~", "b", "o", "l", "d", "~", "b">>
TxtBrokenColour ==
    <<"~", "H", "U", "D", "_", "C", "O", "L", "O", "U", "R", "_", "\n", "X", "~">>

PreviewInputs ==
    TextsUpTo(PreviewPieces, MaxPreviewPieces)
        \cup {TxtBoldNormal, TxtBoldLong, TxtBrokenColour}

\* The state add_formatted_text_to_html is called in (line 579, under the
\* guard of line 576): the script was started with the preview asked for,
\* dominate is there, and setup_html_doc has made the document (lines
\* 415-417, 623-625); nothing has been added to its body yet.  The other
\* class attributes are as declared.
InitPreview ==
    /\ parsing = FALSE
    /\ used_ids = {}
    /\ errors = 0
    /\ display_limit = 10
    /\ show_lang = None
    /\ found_missing_lang = 0
    /\ total_strings = 0
    /\ output = <<>>
    /\ file_no = 0
    /\ children_left = 0
    /\ children_seen = 0
    /\ diags = <<>>
    /\ history = <<>>
    /\ exit_status = None
    /\ preview_formatting = TRUE
    /\ body = <<>>
    /\ raised = NoException
    /\ entry = NoNode
    /\ pc = "preview"
    /\ raw_text \in PreviewInputs
    /\ rewritten = <<>>
    /\ text_fragments = <<>>
    /\ matchedActions = <<>>
    /\ loop_i = 0
    /\ bolded = FALSE
    /\ italic = FALSE
    /\ color = ""
    /\ condensed = 0
    /\ new_line = FALSE
    /\ styles = <<>>

\* The style state taken over by the variables.
AssignStyle(st) ==
    /\ bolded' = st.bolded
    /\ italic' = st.italic
    /\ color' = st.color
    /\ condensed' = st.condensed
    /\ new_line' = st.new_line

\* Lines 454-466: the text is rewritten and split, the state is set up and
\* the text before the first directive is added.
StartPreview ==
    /\ pc = "preview"
    /\ pc' = "loop"
    /\ rewritten' = regex_replace_multiple(raw_text, GTA_FORMAT_REPLACEMENT_TABLE)
    /\ text_fragments' = re_split(rewritten')
    /\ matchedActions' = re_findall(rewritten')
    /\ body' = body \o EmitFirst(text_fragments'[1])
    /\ AssignStyle(InitialStyle)
    /\ styles' = <<InitialStyle>>
    /\ loop_i' = 0
    /\ UNCHANGED <<cvars, raw_text, raised>>

\* Lines 467-503, one turn of the loop: the directive before the fragment
\* changes the state, then the fragment is added with the state.  An
\* exception of the match statement ends the call.
StepPreview ==
    /\ pc = "loop"
    /\ loop_i < Len(text_fragments) - 1
    /\ LET formatting == matchedActions[loop_i + 1]
           fragment == text_fragments[loop_i + 2]
           o == ApplyFormatting(Style, formatting)
       IN  IF o.raised # NoException
           THEN /\ pc' = "raised"
                /\ raised' = o.raised
                /\ UNCHANGED <<loop_i, bolded, italic, color, condensed, new_line, body,
                                styles>>
           ELSE /\ pc' = "loop"
                /\ AssignStyle(o.st)
                /\ body' = body \o Emit(o.st, fragment)
                /\ loop_i' = loop_i + 1
                /\ styles' = Append(styles, o.st)
                /\ UNCHANGED raised
    /\ UNCHANGED <<cvars, raw_text, rewritten, text_fragments, matchedActions>>

\* Line 467: no fragment is left, the call returns.
ReturnPreview ==
    /\ pc = "loop"
    /\ loop_i = Len(text_fragments) - 1
    /\ pc' = "rendered"
    /\ UNCHANGED <<cvars, pvars>>

NextPreview ==
    \/ StartPreview
    \/ StepPreview
    \/ ReturnPreview

SpecPreview == InitPreview /\ [][NextPreview]_vars

----------------------------------------------------------------------------
(* Properties of the preview of one text (SpecPreview)                     *)

\* The call has ended, by returning or by an exception.
PreviewEnded == pc \in {"rendered", "raised"}

\* The <span> nodes of a list of nodes, and the number of its <br> nodes.
SpansOf(nodes) == SelectSeq(nodes, LAMBDA n : n.tag = "span")
BreaksOf(nodes) == Len(SelectSeq(nodes, LAMBDA n : n.tag = "br"))

\* The state after the first k directives of the text.
RECURSIVE StateAfter(_)
StateAfter(k) ==
    IF k = 0 THEN InitialStyle
    ELSE ApplyFormatting(StateAfter(k - 1), matchedActions[k]).st

\* The runs of the fragments from the k-th on: a run for every fragment that
\* is not empty, tagged with the state after the directives before it.
RECURSIVE RunsFrom(_)
RunsFrom(k) ==
    IF k > Len(text_fragments) THEN <<>>
    ELSE (IF text_fragments[k] # <<>>
          THEN <<Span(text_fragments[k], Classes(StateAfter(k - 1)),
                      StyleAttr(StateAfter(k - 1)))>>
          ELSE <<>>) \o RunsFrom(k + 1)

\* C13 (as claimed): when the call has ended, the runs added are the
\* fragments of the text that are not empty, in order, each tagged with the
\* state after exactly the directives before it, the first with the initial
\* state; "~h~Bold~h~Normal" gives Bold in bold and Normal not in bold, both
\* in the initial colour.
C13_RunsTaggedWithPrecedingState ==
    PreviewEnded
    => /\ SpansOf(body) = RunsFrom(1)
       /\ raw_text = TxtBoldNormal
           => SpansOf(body)
                = <<Span(<<"B", "o", "l", "d">>, <<"bolded">>,
                         "color: rgb(205,205,205);"),
                    Span(<<"N", "o", "r", "m", "a", "l">>, <<>>,
                         "color: rgb(205,205,205);")>>

\* C14 (as claimed): the call never ends with an exception; a colour
\* directive whose name is not in the table leaves the colour as it is.
C14_NoFailureMode ==
    /\ pc # "raised"
    /\ raised = NoException

\* C16 (as claimed): the condensed depth is never negative, and after
\* "(/C)(C)" the text that follows is condensed.
C16_CondensedDepthClamped ==
    /\ condensed >= 0
    /\ (PreviewEnded /\ raw_text = <<"(", "/", "C", ")", "(", "C", ")", "a">>)
        => body = <<Span(<<"a">>, <<"condensed">>, "color: rgb(205,205,205);")>>

\* C17 (as claimed): a turn of the loop adds one line break when its
\* directive is the newline directive, also when the fragment behind it is
\* empty, and no line break when it is any other directive.
C17_BreakPerNewlineDirective ==
    [][loop_i' = loop_i + 1
        => BreaksOf(body') - BreaksOf(body)
             = (IF matchedActions[loop_i'] = <<"~", "n", "~">> THEN 1 ELSE 0)]_vars

Toggles == {<<"~", "h", "~">>, <<"~", "b", "o", "l", "d", "~">>,
            <<"~", "i", "t", "a", "l", "i", "c", "~">>, <<"~", "n", "~">>}

\* The fields of the style state in which two states differ.
Changed(a, b) == {f \in DOMAIN a : a[f] # b[f]}

\* C18: a turn of the loop changes the state by its directive alone: a bold
\* directive flips bolded and nothing else, ~italic~ italic, ~n~ new_line,
\* "(C)" and "(/C)" move condensed by one up or down, a colour directive
\* changes at most color; the variables of the state are the state the last
\* completed turn left (a fragment, or a directive that raises, changes
\* nothing); two equal toggle directives in a row give back the state before
\* them.
C18_StepFrame ==
    /\ pc \in {"loop", "rendered", "raised"} => Style = styles[Len(styles)]
    /\ pc \in {"loop", "rendered", "raised"} => styles[1] = InitialStyle
    /\ \A k \in 1..(Len(styles) - 1) :
          LET f == matchedActions[k]
              a == styles[k]
              b == styles[k + 1]
          IN  /\ f \in {<<"~", "h", "~">>, <<"~", "b", "o", "l", "d", "~">>}
                    => Changed(a, b) = {"bolded"} /\ b.bolded = ~a.bolded
              /\ f = <<"~", "i", "t", "a", "l", "i", "c", "~">>
                    => Changed(a, b) = {"italic"} /\ b.italic = ~a.italic
              /\ f = <<"~", "n", "~">>
                    => Changed(a, b) = {"new_line"} /\ b.new_line = ~a.new_line
              /\ f = <<"(", "C", ")">>
                    => Changed(a, b) = {"condensed"} /\ b.condensed = a.condensed + 1
              /\ f = <<"(", "/", "C", ")">>
                    => Changed(a, b) = {"condensed"} /\ b.condensed = a.condensed - 1
              /\ f \notin Toggles \cup {<<"(", "C", ")">>, <<"(", "/", "C", ")">>}
                    => Changed(a, b) \subseteq {"color"}
              /\ (k + 2 <= Len(styles) /\ f \in Toggles /\ matchedActions[k + 1] = f)
                    => styles[k + 2] = a

\* C18 witness: the call returned after two ~italic~ in a row and a colour
\* directive that changed the colour.
C18_Witness ==
    /\ pc = "rendered"
    /\ Len(styles) = 4
    /\ matchedActions[1] = <<"~", "i", "t", "a", "l", "i", "c", "~">>
    /\ matchedActions[2] = <<"~", "i", "t", "a", "l", "i", "c", "~">>
    /\ styles[2].italic /\ ~styles[3].italic
    /\ styles[4].color # styles[3].color

\* Fragment 1, directive 1, fragment 2, directive 2, ... put together.
RECURSIVE Interleave(_, _)
Interleave(fragments, actions) ==
    IF fragments = <<>> THEN <<>>
    ELSE Head(fragments)
           \o (IF actions = <<>> THEN <<>> ELSE Head(actions))
           \o Interleave(Tail(fragments), Tail(actions))

\* C19: the split gives one fragment more than there are directives, and the
\* fragments and the directives put together in turn are the text that was
\* split.
C19_TokenizerRoundTrip ==
    pc # "preview"
    => /\ Len(text_fragments) = Len(matchedActions) + 1
       /\ Interleave(text_fragments, matchedActions) = rewritten

\* C19 witness: a text with a tilde that belongs to no directive, split in
\* three fragments around two directives, the first and the last empty.
C19_Witness ==
    /\ pc = "loop"
    /\ Len(matchedActions) = 2
    /\ text_fragments = <<<<>>, <<"r", "~">>, <<>>>>

\* The rules of the table whose pattern the text holds.  A rule whose pattern
\* the text does not hold matches nowhere, at whatever place of the order: a
\* replacement puts a name where the letter was and leaves both tildes where
\* they were, so a letter between two tildes was between them from the start.
Applicable(t) ==
    {k \in 1..Len(GTA_FORMAT_REPLACEMENT_TABLE) :
        \E p \in 1..Len(t) : LiteralAt(t, p, GTA_FORMAT_REPLACEMENT_TABLE[k][1])}

\* The orders of the table tried for text t: every order of the applicable
\* rules.
Orders(t) ==
    LET a == Applicable(t)
        n == Cardinality(a)
    IN  {[k \in 1..n |-> GTA_FORMAT_REPLACEMENT_TABLE[o[k]]] :
            o \in {f \in [1..n -> a] : \A x, y \in 1..n : x # y => f[x] # f[y]}}

\* No replacement of the table holds a match of a pattern of the table.
NoReplacementMatched ==
    \A k, m \in 1..Len(GTA_FORMAT_REPLACEMENT_TABLE) :
        \A p \in 1..Len(GTA_FORMAT_REPLACEMENT_TABLE[m][2]) :
            ~LiteralAt(GTA_FORMAT_REPLACEMENT_TABLE[m][2], p,
                       GTA_FORMAT_REPLACEMENT_TABLE[k][1])

OrderIndependent ==
    \A order \in Orders(raw_text) : regex_replace_multiple(raw_text, order) = rewritten

\* The text holds a shorthand directive followed by its own letter and a
\* tilde, as in "~r~r~".
SelfOverlap(t) ==
    \E k \in 1..Len(GTA_FORMAT_REPLACEMENT_TABLE) : \E p \in 1..Len(t) :
        LET x == GTA_FORMAT_REPLACEMENT_TABLE[k][1][2]
        IN  LiteralAt(t, p, <<"~", x, "~", x, "~">>)

SecondPass == regex_replace_multiple(rewritten, GTA_FORMAT_REPLACEMENT_TABLE)

\* The text has been rewritten and the loop has not begun.
Rewritten == pc = "loop" /\ loop_i = 0

\* C20 (as claimed): no replacement is matched by a pattern, every order of
\* the rules gives the same text, and the table applied to the rewritten
\* text changes nothing.
C20_RewriteOrderIndependentIdempotent ==
    Rewritten
    => /\ NoReplacementMatched
       /\ OrderIndependent
       /\ SecondPass = rewritten

\* C20 (amended): no replacement is matched by a pattern and every order of
\* the rules gives the same text; the table applied to the rewritten text
\* changes nothing exactly when the text holds no shorthand directive
\* followed by its own letter and a tilde.
C20_RewriteOrderIndependent ==
    Rewritten
    => /\ NoReplacementMatched
       /\ OrderIndependent
       /\ (SecondPass = rewritten) <=> ~SelfOverlap(raw_text)

\* C20 witness: "~g~~r~r~", rewritten by the rule of r before that of g, and
\* rewritten again by a second pass.
C20_Witness ==
    /\ Rewritten
    /\ raw_text = <<"~", "g", "~", "~", "r", "~", "r", "~">>
    /\ Len(matchedActions) = 2
    /\ SecondPass # rewritten

====
